---- MODULE Spec2Model ----
(***************************************************************************)
(* Model of the Application reconciler (Reconciler.Reconcile and the      *)
(* functions it calls) and of the controller's event filter.              *)
(*                                                                         *)
(* One reconcile pass is one action.  The collaborators the pass calls    *)
(* (API server reads and writes, handler set-up, garbage collector,       *)
(* parser, workflow driver, ...) answer nondeterministically; the pass is *)
(* computed as the set of all of its possible outcomes, each outcome      *)
(* carrying the log of the calls that were made.                          *)
(***************************************************************************)
EXTENDS Integers, Sequences, FiniteSets, TLC

\* ------------------------------------------------------------------ bounds
MaxGeneration == 2

\* --------------------------------------------------------------- constants
baseGCBackoffWaitTime == 3000
ApplicationReSyncPeriod == 300000
resourceTrackerFinalizer == "app.oam.dev/resource-tracker-finalizer"
OtherFinalizer == "example.com/other-finalizer"
controllerVersion == "v1"
OtherVersion == "v2"
NoAnnotation == "<absent>"

AppName == "app"
AppNamespace == "ns"

nil == "nil"

ApplicationStarting == "starting"
ApplicationRendering == "rendering"
ApplicationPolicyGenerating == "generatingPolicy"
ApplicationRunningWorkflow == "runningWorkflow"
ApplicationWorkflowSuspending == "workflowSuspending"
ApplicationWorkflowTerminated == "workflowTerminated"
ApplicationWorkflowFinished == "workflowFinished"
ApplicationRunning == "running"
ApplicationUnhealthy == "unhealthy"
ApplicationDeleting == "deleting"

WorkflowStates ==
    {"Initializing", "Suspended", "Terminated", "Executing", "Succeeded",
     "Finished", "Skipping"}

VARIABLES
    app,              \* the Application as stored in the API server
    trackers,         \* the ResourceTrackers of the Application in the cluster
    MemStore,         \* wfContext.MemStore: names holding an in-memory context
    StepStatusCache,  \* workflow.StepStatusCache: set of <<key, value>>
    cfg,              \* process flags and reconciler options
    event,            \* a notification offered to the event filter
    passed,           \* the filter's verdict on it
    queue,            \* requests the ResourceTracker handler has enqueued
    history,          \* what the status writes have persisted as Status.Phase
    ds,               \* the ApplicationComponent held by the datastore
    reply             \* the last storage-item call: request, result, effect

vars == <<app, trackers, MemStore, StepStatusCache, cfg, event, passed, queue,
          history, ds, reply>>

\* ------------------------------------------------------------ stored state
\* Which kinds of ResourceTracker exist: the root tracker, the tracker of
\* the current revision, at least one tracker of a superseded revision, the
\* component-revision tracker.
NoTrackers ==
    [root |-> FALSE, current |-> FALSE, history |-> FALSE, cv |-> FALSE]

TrackerStates ==
    [root : BOOLEAN, current : BOOLEAN, history : BOOLEAN, cv : BOOLEAN]

NoApp ==
    [exists |-> FALSE, DeletionTimestamp |-> FALSE, Finalizers |-> {},
     Generation |-> 1, ControllerRequirement |-> NoAnnotation,
     VelaVersion |-> FALSE, ObservedGeneration |-> 0, Workflow |-> <<>>]

ControllerRequirements == {NoAnnotation, controllerVersion, OtherVersion}

NewApp(req, fins) ==
    [NoApp EXCEPT !.exists = TRUE, !.ControllerRequirement = req,
                  !.Finalizers = fins]

\* ------------------------------------------------------ watched objects
\* An object as the event filter sees it.  Field values are compared for
\* equality only, so two values per field are enough; Workflow is <<>> for
\* a nil Status.Workflow and a one-element sequence otherwise.
WorkflowStatuses ==
    [Steps : 0..1, ContextBackend : 0..1, Message : 0..1, Terminated : BOOLEAN]

Workflows == { <<>> } \cup { <<w>> : w \in WorkflowStatuses }

\* The labels of an object: <<>> for a nil map, otherwise the values under
\* oam.LabelAppName and oam.LabelAppNamespace, "" for a key that is not set.
NoLabels == <<>>

TrackerLabels ==
    { NoLabels } \cup
    { << [AppName |-> n, AppNamespace |-> ns] >>
      : n \in {"", AppName}, ns \in {"", AppNamespace} }

OwnerLabels == << [AppName |-> AppName, AppNamespace |-> AppNamespace] >>

Applications ==
    [Kind : {"Application"}, Generation : 1..MaxGeneration,
     ManagedFields : 0..1, ResourceVersion : 0..1, Phase : 0..1,
     Workflow : Workflows, AppliedResources : 0..1, Services : 0..1,
     DeletionTimestamp : {FALSE}, Labels : {NoLabels}]

\* A ResourceTracker has no workflow status; its deletion timestamp and
\* labels are what its handler reads.
ResourceTrackers ==
    [Kind : {"ResourceTracker"}, Generation : 1..MaxGeneration,
     ManagedFields : 0..1, ResourceVersion : 0..1, Phase : 0..1,
     Workflow : { <<>> }, AppliedResources : {0}, Services : {0},
     DeletionTimestamp : BOOLEAN, Labels : TrackerLabels]

\* Objects of any other kind.
OtherObjects ==
    [Kind : {"ConfigMap"}, Generation : 1..MaxGeneration,
     ManagedFields : 0..1, ResourceVersion : 0..1, Phase : 0..1,
     Workflow : { <<>> }, AppliedResources : {0}, Services : {0},
     DeletionTimestamp : {FALSE}, Labels : {NoLabels}]

Objects == Applications \cup ResourceTrackers \cup OtherObjects

\* The old object of a notification: every field at its first value, with
\* and without a workflow status, with and without the labels of its owner.
OldObjects ==
    { o \in Objects :
        /\ o.Generation = 1 /\ o.ManagedFields = 0 /\ o.ResourceVersion = 0
        /\ o.Phase = 0 /\ o.AppliedResources = 0 /\ o.Services = 0
        /\ ~o.DeletionTimestamp
        /\ o.Labels \in {NoLabels, OwnerLabels}
        /\ \/ o.Workflow = <<>>
           \/ o.Workflow = << [Steps |-> 0, ContextBackend |-> 0,
                               Message |-> 0, Terminated |-> FALSE] >> }

UpdateEvents == [Type : {"Update"}, ObjectOld : OldObjects, ObjectNew : Objects]

\* Create, delete and generic notifications carry one object, kept in both
\* fields.
ObjectEvents ==
    { [Type |-> t, ObjectOld |-> o, ObjectNew |-> o]
      : t \in {"Create", "Delete", "Generic"}, o \in ResourceTrackers }

NoEvent ==
    LET o == CHOOSE x \in OldObjects : x.Kind = "ConfigMap"
    IN  [Type |-> "Update", ObjectOld |-> o, ObjectNew |-> o]

\* ------------------------------------------------- storage-item documents
MaxItems == 2

KeyStorage == "storage"
KeyConfigMap == "configMap"
KeySecret == "secret"

StorageTypes == {KeyConfigMap, KeySecret}
MountPaths == {"/etc/a", "/etc/b"}
DataKeys == {"k1", "k2"}

\* The data map of an entry: keys are present or not, values are strings.
DataOf(keys) == [k \in keys |-> "v1"]

\* An entry of the list of a storage type, as the JSON object it is: the
\* mountPath and data fields may each be absent.
StorageItem(mountPath, data) ==
    [hasMountPath |-> TRUE, mountPath |-> mountPath,
     hasData |-> TRUE, data |-> data]

StorageItems ==
    { StorageItem("/etc/a", DataOf({"k1"})),
      StorageItem("/etc/a", DataOf(DataKeys)),
      StorageItem("/etc/b", DataOf({"k1"})),
      [StorageItem("/etc/a", DataOf({})) EXCEPT !.hasData = FALSE],
      [StorageItem("", DataOf({"k1"})) EXCEPT !.hasMountPath = FALSE] }

\* The value a property document holds for a storage type: nothing, a list
\* of entries, or a single entry that is not in a list.
Absent == [Kind |-> "absent", Items |-> << >>]

ListOf(items) == [Kind |-> "list", Items |-> items]

ObjectOf(item) == [Kind |-> "object", Items |-> << item >>]

NoProperties == [configMap |-> Absent, secret |-> Absent]

\* The documents with a configMap type only, and a few with a secret type.
StorageProperties ==
    { [configMap |-> c, secret |-> Absent]
      : c \in {Absent, ObjectOf(StorageItem("/etc/a", DataOf({"k1"})))}
              \cup { ListOf(l) : l \in UNION { [1..n -> StorageItems]
                                                : n \in 0..MaxItems } } }
    \cup
    { [configMap |-> c, secret |-> ListOf(<< StorageItem("/etc/a", DataOf({"k1"})) >>)]
      : c \in {Absent, ListOf(<< StorageItem("/etc/a", DataOf({"k1"})) >>)} }

Trait(type, properties) == [Type |-> type, Properties |-> properties]

\* model.ApplicationComponent as the datastore holds it.
NoComponent == [exists |-> FALSE, Traits |-> << >>]

Components ==
    { [exists |-> TRUE, Traits |-> t]
      : t \in { << >> }
              \cup { << Trait(KeyStorage, d) >> : d \in StorageProperties }
              \cup { << Trait("scaler", NoProperties), Trait(KeyStorage, d) >>
                     : d \in { x \in StorageProperties :
                                  x.configMap.Kind # "list" } }
              \cup { << Trait(KeyStorage, d), Trait("scaler", NoProperties) >>
                     : d \in { x \in StorageProperties :
                                  x.configMap.Kind = "absent" } } }

\* apisCmb.StorageItemOptions and apisCmb.StorageItemRequest.
StorageItemOptions ==
    [Type : StorageTypes, MountPath : MountPaths, DataKey : DataKeys]

StorageItemRequest ==
    [Type : StorageTypes, MountPath : MountPaths, DataKey : DataKeys,
     DataValue : {"v2"}]

NoReply ==
    [op |-> "", req |-> [Type |-> "", MountPath |-> "", DataKey |-> ""],
     before |-> NoComponent, res |-> FALSE, value |-> "", err |-> nil,
     put |-> FALSE]

\* Status.Phase is written by the reconciler and never read by it.  The
\* specifications that follow the phase start a history: the phase the last
\* successful status write persisted ("" before the first) and whether
\* runningWorkflow was ever persisted.  The others keep none.
NoHistory == <<>>

NewHistory == << [Phase |-> "", RunningWorkflow |-> FALSE] >>

Persisted(h, phase) ==
    IF h = NoHistory THEN h
    ELSE << [Phase |-> phase,
             RunningWorkflow |-> h[1].RunningWorkflow
                                 \/ phase = ApplicationRunningWorkflow] >>

Configs ==
    [EnableReconcileLoopReduction : BOOLEAN,
     EnableInMemoryContext : BOOLEAN,
     ignoreAppNoCtrlReq : BOOLEAN,
     disableStatusUpdate : BOOLEAN,
     EnableResourceTrackerDeleteOnlyTrigger : BOOLEAN]

\* A user has submitted the Application, with or without a controller
\* requirement and a finalizer of another controller; nothing has run yet.
Init ==
    /\ app \in { NewApp(req, fins)
                 : req \in ControllerRequirements,
                   fins \in SUBSET {OtherFinalizer} }
    /\ trackers = NoTrackers
    /\ MemStore = {}
    /\ StepStatusCache = {}
    /\ cfg \in { c \in Configs : c.EnableResourceTrackerDeleteOnlyTrigger }
    /\ event = NoEvent
    /\ passed = "none"
    /\ queue = {}
    /\ history = NoHistory
    /\ ds = NoComponent
    /\ reply = NoReply

\* ---------------------------------------------------- API server semantics
\* An object that carries a deletion timestamp and no finalizer is removed.
Settle(o) == IF o.DeletionTimestamp /\ o.Finalizers = {} THEN NoApp ELSE o

\* ------------------------------------------------- one pass: bookkeeping
\* The working state of a pass: the in-memory object (app), the stored
\* object (obj), the cluster and process state, the in-memory
\* Status.Workflow.Finished, whether the latest call succeeded (ok),
\* whether every call so far succeeded (clean) and the log of its calls.
\* backoff is what wf.GetBackoffWaitTime returned to the pass, if it asked.
\* The log is kept as far as trace asks for: not at all ("off"), up to and
\* including the call of the parser ("entry"), to the end ("all"), or for
\* the calls named in watch and, if failures is set, the failed ones
\* ("watch").
Pass(trace) ==
    [app |-> app, obj |-> app, trackers |-> trackers, MemStore |-> MemStore,
     StepStatusCache |-> StepStatusCache, history |-> history,
     Finished |-> FALSE, ok |-> TRUE, clean |-> TRUE, trace |-> trace,
     watch |-> {}, failures |-> FALSE, backoff |-> 0, log |-> <<>>]

StartPass == Pass("off")

TracedPass == Pass("entry")

Watch(ops) == [Pass("watch") EXCEPT !.watch = ops]

WatchFailures(ops) == [Watch(ops) EXCEPT !.failures = TRUE]

Ev(op, arg, ok) == [op |-> op, arg |-> arg, ok |-> ok]

Log(p, op, arg, ok) ==
    [p EXCEPT !.ok = ok,
              !.clean = @ /\ ok,
              !.trace = IF @ = "entry" /\ op = "GenerateAppFile" THEN "off" ELSE @,
              !.log = IF \/ p.trace \in {"entry", "all"}
                         \/ p.trace = "watch"
                            /\ (op \in p.watch \/ (p.failures /\ ~ok))
                      THEN Append(@, Ev(op, arg, ok)) ELSE @]

Bind(S, F(_)) == UNION {F(x) : x \in S}

\* strconv.FormatBool, for the log.
FormatBool(b) == IF b THEN "true" ELSE "false"

\* A finished pass: final working state and the (ctrl.Result, error) pair.
Out(p, r) == [p |-> p, RequeueAfter |-> r.RequeueAfter, err |-> r.err]

\* ---------------------------------------------------------------- conditions
TypeReady == "Ready"
TypeSynced == "Synced"

\* The conditions the reconciler sets, by the name they have in the log:
\* the Ready condition built at lines 347-352, condition.Deleting,
\* condition.ReconcileError, condition.ReadyCondition of the workflow, and
\* condition.ErrorCondition(name, err) for every other name.
Condition(name) ==
    CASE name = "Ready" ->
           [Type |-> TypeReady, Status |-> "True", Reason |-> "ReconcileSuccess"]
      [] name = "Deleting" ->
           [Type |-> TypeReady, Status |-> "False", Reason |-> "Deleting"]
      [] name = "ReconcileError" ->
           [Type |-> TypeSynced, Status |-> "False", Reason |-> "ReconcileError"]
      [] name = "WorkflowReady" ->
           [Type |-> "Workflow", Status |-> "True", Reason |-> "Available"]
      [] OTHER ->
           [Type |-> name, Status |-> "False", Reason |-> "ReconcileError"]

NoConditions == [t \in {} |-> Condition("Ready")]

\* Status.SetConditions: the condition replaces the one of its type, the
\* conditions of the other types stay.
SetConditions(conditions, c) ==
    [t \in DOMAIN conditions \cup {c.Type} |->
        IF t = c.Type THEN c ELSE conditions[t]]

\* The conditions a pass has set on the in-memory status by the end of log.
RECURSIVE ConditionsSet(_)
ConditionsSet(log) ==
    IF log = << >> THEN NoConditions
    ELSE LET e == log[Len(log)]
             before == ConditionsSet(SubSeq(log, 1, Len(log) - 1))
         IN  IF e.op = "SetConditions"
             THEN SetConditions(before, Condition(e.arg))
             ELSE before

\* ------------------------------------------------------- reconcileResult
result(err) == [Duration |-> 0, err |-> err]

\* The requeue that takes the backoff of the collection for every delay.
requeueFixedBackoff(r, d) == [r EXCEPT !.Duration = baseGCBackoffWaitTime]

\* The requeue that forgets the delay.
requeueWithoutDelay(r, d) == r

requeue(r, d) == [r EXCEPT !.Duration = d]

\* The result that drops the error once a requeue delay is set.
retWithoutErrorOnRequeue(r) ==
    IF r.Duration # 0 THEN [RequeueAfter |-> r.Duration, err |-> nil]
    ELSE IF r.err # nil THEN [RequeueAfter |-> 0, err |-> r.err]
    ELSE [RequeueAfter |-> ApplicationReSyncPeriod, err |-> nil]

ret(r) ==
    IF r.Duration # 0 THEN [RequeueAfter |-> r.Duration, err |-> r.err]
    ELSE IF r.err # nil THEN [RequeueAfter |-> 0, err |-> r.err]
    ELSE [RequeueAfter |-> ApplicationReSyncPeriod, err |-> nil]

ErrNotFound == "not found"

\* The error passed on as it is.
KeepNotFound(err) == err

IgnoreNotFound(err) == IF err = ErrNotFound THEN nil ELSE err

\* errors.Wrap and errors.WithMessage keep nil and decorate anything else.
Wrap(err, msg) == IF err = nil THEN nil ELSE msg

errUpdateApplicationFinalizer == "cannot update application finalizer"

\* ------------------------------------------------------------ status writes
CacheKey(name, namespace) == name \o "-" \o namespace

Store(cache, key, value) ==
    {e \in cache : e[1] # key} \cup {<<key, value>>}

updateObservedGeneration(a) ==
    IF a.ObservedGeneration # a.Generation
    THEN [a EXCEPT !.ObservedGeneration = a.Generation]
    ELSE a

\* The status write that stores the whole in-memory object.
PersistObject(o, a) == IF o.exists THEN a ELSE o

\* The status subresource of the stored object takes the in-memory status.
\* The reconciler only ever writes Status.Phase and Status.Workflow.Finished
\* and never reads them back: the stored object does not keep them, the
\* phase of a status write is the argument of its log entry.
PersistStatus(o, a) ==
    IF o.exists
    THEN [o EXCEPT !.ObservedGeneration = a.ObservedGeneration,
                   !.Workflow = a.Workflow]
    ELSE o

\* Results are pairs [p, err].
patchStatus(p, phase) ==
    LET a == updateObservedGeneration(p.app)
        q == [p EXCEPT !.app = a]
    IN  { [p |-> Log([q EXCEPT !.obj = PersistStatus(@, a),
                               !.history = Persisted(@, phase)],
                     "Status().Patch", phase, TRUE),
           err |-> nil],
          [p |-> Log([q EXCEPT !.StepStatusCache =
                          Store(@, CacheKey(AppName, AppNamespace), -1)],
                     "Status().Patch", phase, FALSE),
           err |-> "status patch failed"] }

updateStatus(p, phase) ==
    LET a == updateObservedGeneration(p.app)
        q == [p EXCEPT !.app = a]
        okP == Log([q EXCEPT !.obj = PersistStatus(@, a),
                             !.history = Persisted(@, phase)],
                   "Status().Update", phase, TRUE)
    IN  IF ~cfg.disableStatusUpdate
        THEN { [p |-> okP, err |-> nil],
               [p |-> Log(q, "Status().Update", phase, FALSE),
                err |-> "status update failed"] }
        ELSE { [p |-> okP, err |-> nil],
               [p |-> Log([q EXCEPT !.StepStatusCache =
                               Store(@, CacheKey(AppName, AppNamespace), -1)],
                          "Status().Update", phase, FALSE),
                err |-> "status update failed"] }

\* The exit that returns the error of the status write and nothing else.
endWithNegativeConditionReturningWriteError(p, cond, phase) ==
    LET q == Log(p, "SetConditions", cond, TRUE)
    IN  { Out(w.p, ret(result(w.err))) : w \in patchStatus(q, phase) }

endWithNegativeCondition(p, cond, phase) ==
    LET q == Log(p, "SetConditions", cond, TRUE)
    IN  { IF w.err # nil
          THEN Out(w.p, ret(result("cannot update application status")))
          ELSE Out(w.p, ret(result("object level reconcile error")))
          : w \in patchStatus(q, phase) }

\* -------------------------------------------------------- garbage collector
\* resourcetracker.ListApplicationResourceTrackers: the four kinds as listed.
ListApplicationResourceTrackers(t) ==
    [rootRT |-> t.root, currentRT |-> t.current,
     historyRTs |-> IF t.history THEN <<"history">> ELSE <<>>,
     cvRT |-> t.cv]

\* The trackers a collection may reap: everything once the object is being
\* deleted, the superseded (history, component-revision) ones in outdated
\* mode, none under the three suppression options.
\* The collection that reaps the trackers in use as well.
ReapableInUse(t, deleting, gcOutdated) ==
    IF ~gcOutdated THEN NoTrackers ELSE t

Reapable(t, deleting, gcOutdated) ==
    IF ~gcOutdated THEN NoTrackers
    ELSE IF deleting THEN t
    ELSE [t EXCEPT !.root = FALSE, !.current = FALSE]

\* t with some of the trackers of r removed.
Reaped(t, r) ==
    { [root |-> t.root /\ ~x.root, current |-> t.current /\ ~x.current,
       history |-> t.history /\ ~x.history, cv |-> t.cv /\ ~x.cv]
      : x \in { y \in TrackerStates :
                    /\ y.root => r.root
                    /\ y.current => r.current
                    /\ y.history => r.history
                    /\ y.cv => r.cv } }

\* resourceKeeper.GarbageCollect: results are [p, finished, err].  A
\* collection in outdated mode is finished when no reapable tracker is left;
\* a lightweight one reports on the deletions in flight.
GarbageCollect(p, gcOutdated) ==
    LET r == Reapable(p.trackers, p.app.DeletionTimestamp, gcOutdated)
        mode == IF gcOutdated THEN "outdated" ELSE "light"
    IN  UNION {
          LET left == Reapable(t, p.app.DeletionTimestamp, gcOutdated)
              q == [p EXCEPT !.trackers = t]
          IN  { [p |-> Log(q, "GarbageCollect", mode, FALSE),
                 finished |-> FALSE, err |-> "gc failed"] }
              \cup
              { [p |-> Log(Log(q, "GarbageCollect", mode, TRUE),
                           "GarbageCollect.finished", FormatBool(f), TRUE),
                 finished |-> f, err |-> nil]
                : f \in IF gcOutdated THEN {left = NoTrackers} ELSE BOOLEAN }
          : t \in Reaped(p.trackers, r) }

\* The collection that takes an unfinished run for a failed one.
gcResourceTrackersFailingUnfinished(p, phase, gcOutdated) ==
    Bind(GarbageCollect(p, gcOutdated), LAMBDA g :
        IF g.err # nil \/ ~g.finished
        THEN { [p |-> o.p, r |-> [RequeueAfter |-> o.RequeueAfter, err |-> o.err]]
               : o \in endWithNegativeCondition(g.p, "ReconcileError", phase) }
        ELSE IF phase = ApplicationRendering
        THEN { [p |-> w.p, r |-> ret(result(w.err))]
               : w \in updateStatus(g.p, ApplicationRunningWorkflow) }
        ELSE { [p |-> w.p, r |-> ret(result(w.err))]
               : w \in patchStatus(g.p, phase) })

\* The collection that writes the phase it was given in every case.
gcResourceTrackersKeepingPhase(p, phase, gcOutdated) ==
    Bind(GarbageCollect(p, gcOutdated), LAMBDA g :
        IF g.err # nil
        THEN { [p |-> o.p, r |-> [RequeueAfter |-> o.RequeueAfter, err |-> o.err]]
               : o \in endWithNegativeCondition(g.p, "ReconcileError", phase) }
        ELSE IF ~g.finished
        THEN { [p |-> w.p, r |-> ret(requeue(result(w.err), baseGCBackoffWaitTime))]
               : w \in patchStatus(Log(g.p, "SetConditions", "Deleting", TRUE), phase) }
        ELSE { [p |-> w.p, r |-> ret(result(w.err))]
               : w \in patchStatus(g.p, phase) })

\* The collection that never passes the suppression options.
gcResourceTrackersAlwaysOutdated(p, phase, gcOutdated) ==
    Bind(GarbageCollect(p, TRUE), LAMBDA g :
        IF g.err # nil
        THEN { [p |-> o.p, r |-> [RequeueAfter |-> o.RequeueAfter, err |-> o.err]]
               : o \in endWithNegativeCondition(g.p, "ReconcileError", phase) }
        ELSE IF ~g.finished
        THEN { [p |-> w.p, r |-> ret(requeue(result(w.err), baseGCBackoffWaitTime))]
               : w \in patchStatus(Log(g.p, "SetConditions", "Deleting", TRUE), phase) }
        ELSE IF phase = ApplicationRendering
        THEN { [p |-> w.p, r |-> ret(result(w.err))]
               : w \in updateStatus(g.p, ApplicationRunningWorkflow) }
        ELSE { [p |-> w.p, r |-> ret(result(w.err))]
               : w \in patchStatus(g.p, phase) })

\* Results are pairs [p, r] with r the (ctrl.Result, error) returned.
gcResourceTrackers(p, phase, gcOutdated) ==
    Bind(GarbageCollect(p, gcOutdated), LAMBDA g :
        IF g.err # nil
        THEN { [p |-> o.p, r |-> [RequeueAfter |-> o.RequeueAfter, err |-> o.err]]
               : o \in endWithNegativeCondition(g.p, "ReconcileError", phase) }
        ELSE IF ~g.finished
        THEN { [p |-> w.p, r |-> ret(requeue(result(w.err), baseGCBackoffWaitTime))]
               : w \in patchStatus(Log(g.p, "SetConditions", "Deleting", TRUE), phase) }
        ELSE IF phase = ApplicationRendering
        THEN { [p |-> w.p, r |-> ret(result(w.err))]
               : w \in updateStatus(g.p, ApplicationRunningWorkflow) }
        ELSE { [p |-> w.p, r |-> ret(result(w.err))]
               : w \in patchStatus(g.p, phase) })

\* ---------------------------------------------------------- object update
\* Client.Update persists metadata (finalizers, annotations), not the status.
ClientUpdate(p) ==
    { Log([p EXCEPT !.obj = Settle([@ EXCEPT !.Finalizers = p.app.Finalizers,
                                             !.VelaVersion = p.app.VelaVersion])],
          "Update", "", TRUE),
      Log(p, "Update", "", FALSE) }

UpdateErr(q) == IF q.ok THEN nil ELSE "update failed"

\* -------------------------------------------------------------- finalizers
\* The test that takes any finalizer for the one asked about.
AnyFinalizerExists(a, f) == a.Finalizers # {}

FinalizerExists(a, f) == f \in a.Finalizers

\* The absence test that forgets the component-revision tracker.
AllTrackersAbsentButComponentRevision(l) ==
    ~l.rootRT /\ ~l.currentRT /\ Len(l.historyRTs) = 0

\* The absence test with the root tracker condition inverted.
AllTrackersAbsentRootInverted(l) ==
    l.rootRT /\ ~l.currentRT /\ Len(l.historyRTs) = 0 /\ ~l.cvRT

\* The absence test that forgets the history trackers.
AllTrackersAbsentButHistory(l) ==
    ~l.rootRT /\ ~l.currentRT /\ ~l.cvRT

AllTrackersAbsent(l) ==
    ~l.rootRT /\ ~l.currentRT /\ Len(l.historyRTs) = 0 /\ ~l.cvRT

DeleteInMemoryContext(store, name) == store \ {name}

\* The listing as it appears in the log: one letter per kind that was found.
ListingName(l) ==
    (IF l.rootRT THEN "r" ELSE "-") \o (IF l.currentRT THEN "c" ELSE "-")
    \o (IF Len(l.historyRTs) > 0 THEN "h" ELSE "-")
    \o (IF l.cvRT THEN "v" ELSE "-")

ListedNone == "----"

\* Results are [p, endReconcile, r].
end(p, r, endReconcile) == [p |-> p, endReconcile |-> endReconcile, r |-> ret(r)]

\* endReconcile without the negation.
EndAfterAddNotNegated(reduction) == reduction

\* endReconcile := !EnableReconcileLoopReduction
EndAfterAdd(reduction) == ~reduction

handleFinalizersAdd(p) ==
    LET q == Log([p EXCEPT !.app.Finalizers = @ \cup {resourceTrackerFinalizer}],
                 "AddFinalizer", "", TRUE)
        endReconcile == EndAfterAdd(cfg.EnableReconcileLoopReduction)
    IN  { end(u, result(Wrap(UpdateErr(u), errUpdateApplicationFinalizer)),
              endReconcile)
          : u \in ClientUpdate(q) }

\* The removal that does not look at the listing.
handleFinalizersRemoveUnlisted(p) ==
    LET l == ListApplicationResourceTrackers(p.trackers)
        listed == ListingName(l)
    IN  { end(Log(p, "ListApplicationResourceTrackers", listed, FALSE),
              result("list failed"), TRUE) }
        \cup
        Bind(gcResourceTrackers(
                 Log(p, "ListApplicationResourceTrackers", listed, TRUE),
                 ApplicationDeleting, TRUE),
             LAMBDA g :
               IF g.r.err # nil
               THEN { [p |-> g.p, endReconcile |-> TRUE, r |-> g.r] }
               ELSE IF TRUE
               THEN LET q == Log([g.p EXCEPT !.app.Finalizers =
                                      @ \ {resourceTrackerFinalizer}],
                                 "RemoveFinalizer", "", TRUE)
                    IN  { end(u, result(Wrap(UpdateErr(u),
                                             errUpdateApplicationFinalizer)), TRUE)
                          : u \in ClientUpdate(q) }
               ELSE IF cfg.EnableInMemoryContext
               THEN { [p |-> Log([g.p EXCEPT !.MemStore =
                                      DeleteInMemoryContext(@, AppName)],
                                 "DeleteInMemoryContext", AppName, TRUE),
                       endReconcile |-> TRUE, r |-> g.r] }
               ELSE { [p |-> g.p, endReconcile |-> TRUE, r |-> g.r] })

handleFinalizersRemove(p) ==
    LET l == ListApplicationResourceTrackers(p.trackers)
        listed == ListingName(l)
    IN  { end(Log(p, "ListApplicationResourceTrackers", listed, FALSE),
              result("list failed"), TRUE) }
        \cup
        Bind(gcResourceTrackers(
                 Log(p, "ListApplicationResourceTrackers", listed, TRUE),
                 ApplicationDeleting, TRUE),
             LAMBDA g :
               IF g.r.err # nil
               THEN { [p |-> g.p, endReconcile |-> TRUE, r |-> g.r] }
               ELSE IF AllTrackersAbsent(l)
               THEN LET q == Log([g.p EXCEPT !.app.Finalizers =
                                      @ \ {resourceTrackerFinalizer}],
                                 "RemoveFinalizer", "", TRUE)
                    IN  { end(u, result(Wrap(UpdateErr(u),
                                             errUpdateApplicationFinalizer)), TRUE)
                          : u \in ClientUpdate(q) }
               ELSE IF cfg.EnableInMemoryContext
               THEN { [p |-> Log([g.p EXCEPT !.MemStore =
                                      DeleteInMemoryContext(@, AppName)],
                                 "DeleteInMemoryContext", AppName, TRUE),
                       endReconcile |-> TRUE, r |-> g.r] }
               ELSE { [p |-> g.p, endReconcile |-> TRUE, r |-> g.r] })

\* The dispatch without the removal branch.
handleFinalizersWithoutRemoval(p) ==
    IF ~p.app.DeletionTimestamp
    THEN IF ~FinalizerExists(p.app, resourceTrackerFinalizer)
         THEN handleFinalizersAdd(p)
         ELSE { end(p, result(nil), FALSE) }
    ELSE { end(p, result(nil), FALSE) }

handleFinalizers(p) ==
    IF ~p.app.DeletionTimestamp
    THEN IF ~FinalizerExists(p.app, resourceTrackerFinalizer)
         THEN handleFinalizersAdd(p)
         ELSE { end(p, result(nil), FALSE) }
    ELSE IF FinalizerExists(p.app, resourceTrackerFinalizer)
         THEN handleFinalizersRemove(p)
         ELSE { end(p, result(nil), FALSE) }

\* ----------------------------------------------------- collaborator calls
\* A call that either succeeds or fails, with no effect modelled beyond that.
Call(p, op) == { Log(p, op, "", TRUE), Log(p, op, "", FALSE) }

Failed(q) == ~q.ok

\* The trackers after the current revision was superseded by a new one: the
\* current tracker becomes a history tracker and the component revisions
\* are tracked.
Superseded(t) ==
    [t EXCEPT !.current = FALSE, !.history = @ \/ t.current, !.cv = TRUE]

\* handler.FinalizeAndApplyAppRevision: a generation not yet observed may
\* resolve to a new revision, an observed one reuses its revision.
FinalizeAndApplyAppRevision(p) ==
    { Log(p, "FinalizeAndApplyAppRevision", "", FALSE) }
    \cup
    { Log([p EXCEPT !.trackers = t], "FinalizeAndApplyAppRevision", "", TRUE)
      : t \in IF p.app.ObservedGeneration # p.app.Generation
              THEN {p.trackers, Superseded(p.trackers)}
              ELSE {p.trackers} }

\* handler.UpdateAppLatestRevisionStatus: records the observed generation.
UpdateAppLatestRevisionStatus(p) ==
    { Log([p EXCEPT !.app = updateObservedGeneration(@)],
          "UpdateAppLatestRevisionStatus", "", TRUE),
      Log(p, "UpdateAppLatestRevisionStatus", "", FALSE) }

\* appFile.PrepareWorkflowAndPolicy: the number of external policies.
PrepareWorkflowAndPolicy(p) ==
    { [p |-> Log(p, "PrepareWorkflowAndPolicy", "", FALSE), n |-> 0] }
    \cup
    { [p |-> Log(p, "PrepareWorkflowAndPolicy", ToString(n), TRUE), n |-> n]
      : n \in 0..1 }

\* Dispatching resources records them in the root and current trackers.
Dispatched(t) == [t EXCEPT !.root = TRUE, !.current = TRUE]

Dispatch(p) ==
    { Log(p, "Dispatch", "", FALSE),
      Log([p EXCEPT !.trackers = Dispatched(@)], "Dispatch", "", TRUE) }

\* The workflow sub-status after a run that returned state s.
WorkflowStatus(w, s) ==
    IF s \in {"Finished", "Skipping"} THEN w
    ELSE LET cur == IF w = <<>> THEN [Terminated |-> FALSE] ELSE w[1]
         IN  << [cur EXCEPT !.Terminated = @ \/ s = "Terminated"] >>

\* wf.ExecuteSteps: results are [p, state]; a failed call has state "".
ExecuteSteps(p) ==
    { [p |-> Log(p, "ExecuteSteps", "", FALSE), state |-> ""] }
    \cup
    { [p |-> Log([p EXCEPT
                    !.trackers = t,
                    !.MemStore = IF cfg.EnableInMemoryContext
                                 THEN @ \cup {AppName} ELSE @,
                    !.app.Workflow = WorkflowStatus(@, s)],
                 "ExecuteSteps", s, TRUE),
       state |-> s]
      : s \in WorkflowStates, t \in {p.trackers, Dispatched(p.trackers)} }

BackoffWaitTimes == {5000, 10000}

\* The finish that does not record the trace.
doWorkflowFinishWithoutTrace(p) == { [p EXCEPT !.Finished = TRUE] }

doWorkflowFinish(p) ==
    { IF Failed(q) THEN q ELSE [q EXCEPT !.Finished = TRUE]
      : q \in Call(p, "Trace") }

\* ------------------------------------------------------------ final phase
\* A policy workload: is FullTemplate set, is its PolicyDefinition set, and
\* the definition's ManageHealthCheck.
PolicyWorkloads ==
    [FullTemplate : BOOLEAN, PolicyDefinition : BOOLEAN,
     ManageHealthCheck : BOOLEAN]

hasHealthCheckPolicy(policies) ==
    \E i \in 1..Len(policies) :
        /\ policies[i].FullTemplate
        /\ policies[i].PolicyDefinition
        /\ policies[i].ManageHealthCheck

\* The health that does not look at the traits.
isHealthyIgnoringTraits(services) ==
    \A i \in 1..Len(services) : services[i].Healthy

\* A service: its Healthy flag and the Healthy flags of its traits.
isHealthy(services) ==
    \A i \in 1..Len(services) :
        /\ services[i].Healthy
        /\ \A j \in 1..Len(services[i].Traits) : services[i].Traits[j]

PolicyChoices ==
    { <<>> } \cup { <<w>> : w \in PolicyWorkloads }
    \cup { << [FullTemplate |-> TRUE, PolicyDefinition |-> TRUE,
               ManageHealthCheck |-> FALSE], w >> : w \in PolicyWorkloads }

ServiceChoices ==
    { <<>>,
      << [Healthy |-> TRUE, Traits |-> <<>>] >>,
      << [Healthy |-> FALSE, Traits |-> <<>>] >>,
      << [Healthy |-> TRUE, Traits |-> <<FALSE>>] >>,
      << [Healthy |-> TRUE, Traits |-> <<TRUE>>] >>,
      << [Healthy |-> TRUE, Traits |-> <<TRUE, FALSE>>] >>,
      << [Healthy |-> TRUE, Traits |-> <<TRUE>>],
         [Healthy |-> FALSE, Traits |-> <<>>] >> }

\* The final phase that does not look at the health.
FinalPhaseIgnoringHealth(policies, services) == ApplicationRunning

FinalPhase(policies, services) ==
    IF ~hasHealthCheckPolicy(policies) /\ ~isHealthy(services)
    THEN ApplicationUnhealthy
    ELSE ApplicationRunning

\* The end of a pass that gives up when state-keep fails.
finishPassEndingOnStateKeepFailure(p) ==
    LET cases == { [phase |-> FinalPhase(ps, ss),
                    policy |-> hasHealthCheckPolicy(ps),
                    healthy |-> isHealthy(ss)]
                   : ps \in PolicyChoices, ss \in ServiceChoices }
    IN  UNION {
         LET phase == v.phase
             h == Log(p, "hasHealthCheckPolicy", FormatBool(v.policy), TRUE)
             q == IF v.policy THEN h
                  ELSE Log(h, "isHealthy", FormatBool(v.healthy), TRUE)
         IN
          Bind(Call(q, "StateKeep"), LAMBDA k :
            IF Failed(k)
            THEN endWithNegativeCondition(k, "StateKeep", phase)
            ELSE
                Bind(Call(k, "garbageCollection"), LAMBDA c :
                  IF Failed(c)
                  THEN endWithNegativeCondition(c, "ReconcileError", phase)
                  ELSE { Out(g.p, g.r)
                         : g \in gcResourceTrackers(
                                     Log(c, "SetConditions", "Ready", TRUE),
                                     phase, TRUE) }))
          : v \in cases }

\* Reconcile, lines 327-355: final phase, state-keep, full collection.
finishPass(p) ==
    LET cases == { [phase |-> FinalPhase(ps, ss),
                    policy |-> hasHealthCheckPolicy(ps),
                    healthy |-> isHealthy(ss)]
                   : ps \in PolicyChoices, ss \in ServiceChoices }
    IN  UNION {
         LET phase == v.phase
             h == Log(p, "hasHealthCheckPolicy", FormatBool(v.policy), TRUE)
             q == IF v.policy THEN h
                  ELSE Log(h, "isHealthy", FormatBool(v.healthy), TRUE)
         IN
          Bind(Call(q, "StateKeep"), LAMBDA k :
            LET k2 == IF Failed(k)
                      THEN [Log(k, "SetConditions", "StateKeep", TRUE)
                            EXCEPT !.ok = FALSE]
                      ELSE k
            IN  Bind(Call(k2, "garbageCollection"), LAMBDA c :
                  IF Failed(c)
                  THEN endWithNegativeCondition(c, "ReconcileError", phase)
                  ELSE { Out(g.p, g.r)
                         : g \in gcResourceTrackers(
                                     Log(c, "SetConditions", "Ready", TRUE),
                                     phase, TRUE) }))
          : v \in cases }

\* The branch that never goes on after Succeeded, whatever the flag.
workflowBranchNeverFused(p, workflowState) ==
    CASE workflowState = "Initializing" ->
           { Out(g.p, g.r) : g \in gcResourceTrackers(p, ApplicationRendering, FALSE) }
      [] workflowState = "Suspended" ->
           { Out(g.p, g.r)
             : g \in gcResourceTrackers(p, ApplicationWorkflowSuspending, FALSE) }
      [] workflowState = "Terminated" ->
           Bind(doWorkflowFinish(p), LAMBDA q :
             IF Failed(q)
             THEN endWithNegativeCondition(q, "Workflow", ApplicationRunningWorkflow)
             ELSE { Out(g.p, g.r)
                    : g \in gcResourceTrackers(q, ApplicationWorkflowTerminated,
                                               FALSE) })
      [] workflowState = "Executing" ->
           { Out([g.p EXCEPT !.backoff = d], ret(requeue(result(g.r.err), d)))
             : g \in gcResourceTrackers(p, ApplicationRunningWorkflow, FALSE),
               d \in BackoffWaitTimes }
      [] workflowState = "Succeeded" ->
           Bind(doWorkflowFinish(p), LAMBDA q :
             IF Failed(q)
             THEN endWithNegativeCondition(q, "Workflow", ApplicationRunningWorkflow)
             ELSE LET q2 == Log(q, "SetConditions", "WorkflowReady", TRUE)
                  IN  { Out(g.p, g.r)
                        : g \in gcResourceTrackers(
                                    q2, ApplicationWorkflowFinished, FALSE) })
      [] workflowState = "Finished" ->
           IF p.app.Workflow # <<>> /\ p.app.Workflow[1].Terminated
           THEN { Out(p, ret(result(nil))) }
           ELSE finishPass(p)
      [] workflowState = "Skipping" ->
           { Out(p, [RequeueAfter |-> 0, err |-> nil]) }

\* The branch that goes on after Finished whether or not the workflow was
\* terminated.
workflowBranchIgnoringTerminated(p, workflowState) ==
    CASE workflowState = "Initializing" ->
           { Out(g.p, g.r) : g \in gcResourceTrackers(p, ApplicationRendering, FALSE) }
      [] workflowState = "Suspended" ->
           { Out(g.p, g.r)
             : g \in gcResourceTrackers(p, ApplicationWorkflowSuspending, FALSE) }
      [] workflowState = "Terminated" ->
           Bind(doWorkflowFinish(p), LAMBDA q :
             IF Failed(q)
             THEN endWithNegativeCondition(q, "Workflow", ApplicationRunningWorkflow)
             ELSE { Out(g.p, g.r)
                    : g \in gcResourceTrackers(q, ApplicationWorkflowTerminated,
                                               FALSE) })
      [] workflowState = "Executing" ->
           { Out([g.p EXCEPT !.backoff = d], ret(requeue(result(g.r.err), d)))
             : g \in gcResourceTrackers(p, ApplicationRunningWorkflow, FALSE),
               d \in BackoffWaitTimes }
      [] workflowState = "Succeeded" ->
           Bind(doWorkflowFinish(p), LAMBDA q :
             IF Failed(q)
             THEN endWithNegativeCondition(q, "Workflow", ApplicationRunningWorkflow)
             ELSE LET q2 == Log(q, "SetConditions", "WorkflowReady", TRUE)
                  IN  IF ~cfg.EnableReconcileLoopReduction
                      THEN { Out(g.p, g.r)
                             : g \in gcResourceTrackers(
                                         q2, ApplicationWorkflowFinished, FALSE) }
                      ELSE finishPass(q2))
      [] workflowState = "Finished" ->
           finishPass(p)
      [] workflowState = "Skipping" ->
           { Out(p, [RequeueAfter |-> 0, err |-> nil]) }

\* The branch that returns from Skipping through ret.
workflowBranchSkippingResyncs(p, workflowState) ==
    CASE workflowState = "Initializing" ->
           { Out(g.p, g.r) : g \in gcResourceTrackers(p, ApplicationRendering, FALSE) }
      [] workflowState = "Suspended" ->
           { Out(g.p, g.r)
             : g \in gcResourceTrackers(p, ApplicationWorkflowSuspending, FALSE) }
      [] workflowState = "Terminated" ->
           Bind(doWorkflowFinish(p), LAMBDA q :
             IF Failed(q)
             THEN endWithNegativeCondition(q, "Workflow", ApplicationRunningWorkflow)
             ELSE { Out(g.p, g.r)
                    : g \in gcResourceTrackers(q, ApplicationWorkflowTerminated,
                                               FALSE) })
      [] workflowState = "Executing" ->
           { Out([g.p EXCEPT !.backoff = d], ret(requeue(result(g.r.err), d)))
             : g \in gcResourceTrackers(p, ApplicationRunningWorkflow, FALSE),
               d \in BackoffWaitTimes }
      [] workflowState = "Succeeded" ->
           Bind(doWorkflowFinish(p), LAMBDA q :
             IF Failed(q)
             THEN endWithNegativeCondition(q, "Workflow", ApplicationRunningWorkflow)
             ELSE LET q2 == Log(q, "SetConditions", "WorkflowReady", TRUE)
                  IN  IF ~cfg.EnableReconcileLoopReduction
                      THEN { Out(g.p, g.r)
                             : g \in gcResourceTrackers(
                                         q2, ApplicationWorkflowFinished, FALSE) }
                      ELSE finishPass(q2))
      [] workflowState = "Finished" ->
           IF p.app.Workflow # <<>> /\ p.app.Workflow[1].Terminated
           THEN { Out(p, ret(result(nil))) }
           ELSE finishPass(p)
      [] workflowState = "Skipping" ->
           { Out(p, ret(result(nil))) }

\* Reconcile, lines 289-325: the branch on the workflow state.
workflowBranch(p, workflowState) ==
    CASE workflowState = "Initializing" ->
           { Out(g.p, g.r) : g \in gcResourceTrackers(p, ApplicationRendering, FALSE) }
      [] workflowState = "Suspended" ->
           { Out(g.p, g.r)
             : g \in gcResourceTrackers(p, ApplicationWorkflowSuspending, FALSE) }
      [] workflowState = "Terminated" ->
           Bind(doWorkflowFinish(p), LAMBDA q :
             IF Failed(q)
             THEN endWithNegativeCondition(q, "Workflow", ApplicationRunningWorkflow)
             ELSE { Out(g.p, g.r)
                    : g \in gcResourceTrackers(q, ApplicationWorkflowTerminated,
                                               FALSE) })
      [] workflowState = "Executing" ->
           { Out([g.p EXCEPT !.backoff = d], ret(requeue(result(g.r.err), d)))
             : g \in gcResourceTrackers(p, ApplicationRunningWorkflow, FALSE),
               d \in BackoffWaitTimes }
      [] workflowState = "Succeeded" ->
           Bind(doWorkflowFinish(p), LAMBDA q :
             IF Failed(q)
             THEN endWithNegativeCondition(q, "Workflow", ApplicationRunningWorkflow)
             ELSE LET q2 == Log(q, "SetConditions", "WorkflowReady", TRUE)
                  IN  IF ~cfg.EnableReconcileLoopReduction
                      THEN { Out(g.p, g.r)
                             : g \in gcResourceTrackers(
                                         q2, ApplicationWorkflowFinished, FALSE) }
                      ELSE finishPass(q2))
      [] workflowState = "Finished" ->
           IF p.app.Workflow # <<>> /\ p.app.Workflow[1].Terminated
           THEN { Out(p, ret(result(nil))) }
           ELSE finishPass(p)
      [] workflowState = "Skipping" ->
           { Out(p, [RequeueAfter |-> 0, err |-> nil]) }

\* --------------------------------------------------------------- Reconcile
\* The match that does not read ignoreAppNoCtrlReq.
matchControllerRequirementWithoutOption(a) ==
    IF a.ControllerRequirement # NoAnnotation
    THEN a.ControllerRequirement = controllerVersion
    ELSE TRUE

matchControllerRequirement(a) ==
    IF a.ControllerRequirement # NoAnnotation
    THEN a.ControllerRequirement = controllerVersion
    ELSE IF cfg.ignoreAppNoCtrlReq THEN FALSE
    ELSE TRUE

\* The pass that dispatches whether or not there are external policies.
renderAndRunDispatchingAlways(p) ==
    Bind(Call(p, "GenerateAppFile"), LAMBDA a :
     IF Failed(a)
     THEN endWithNegativeCondition(a, "Parsed", ApplicationRendering)
     ELSE
     Bind(Call(a, "PrepareCurrentAppRevision"), LAMBDA b :
      IF Failed(b)
      THEN endWithNegativeCondition(b, "Revision", ApplicationRendering)
      ELSE
      Bind(FinalizeAndApplyAppRevision(b), LAMBDA c :
       IF Failed(c)
       THEN endWithNegativeCondition(c, "Revision", ApplicationRendering)
       ELSE
       Bind(UpdateAppLatestRevisionStatus(c), LAMBDA d :
        IF Failed(d)
        THEN endWithNegativeCondition(d, "ReconcileError", ApplicationRendering)
        ELSE
        Bind(PrepareWorkflowAndPolicy(d), LAMBDA e :
         IF Failed(e.p)
         THEN endWithNegativeCondition(e.p, "Policy", ApplicationPolicyGenerating)
         ELSE
         Bind(Dispatch(e.p), LAMBDA f :
          IF Failed(f)
          THEN endWithNegativeCondition(f, "Policy", ApplicationPolicyGenerating)
          ELSE
          Bind(Call(f, "GenerateApplicationSteps"), LAMBDA g :
           IF Failed(g)
           THEN endWithNegativeCondition(g, "Workflow", ApplicationRendering)
           ELSE
           Bind(ExecuteSteps(g), LAMBDA w :
            IF Failed(w.p)
            THEN endWithNegativeCondition(w.p, "Workflow",
                                          ApplicationRunningWorkflow)
            ELSE workflowBranch(w.p, w.state)))))))))

\* Reconcile, lines 216-288: parse, revision, policies, steps, workflow.
renderAndRun(p) ==
    Bind(Call(p, "GenerateAppFile"), LAMBDA a :
     IF Failed(a)
     THEN endWithNegativeCondition(a, "Parsed", ApplicationRendering)
     ELSE
     Bind(Call(a, "PrepareCurrentAppRevision"), LAMBDA b :
      IF Failed(b)
      THEN endWithNegativeCondition(b, "Revision", ApplicationRendering)
      ELSE
      Bind(FinalizeAndApplyAppRevision(b), LAMBDA c :
       IF Failed(c)
       THEN endWithNegativeCondition(c, "Revision", ApplicationRendering)
       ELSE
       Bind(UpdateAppLatestRevisionStatus(c), LAMBDA d :
        IF Failed(d)
        THEN endWithNegativeCondition(d, "ReconcileError", ApplicationRendering)
        ELSE
        Bind(PrepareWorkflowAndPolicy(d), LAMBDA e :
         IF Failed(e.p)
         THEN endWithNegativeCondition(e.p, "Policy", ApplicationPolicyGenerating)
         ELSE
         Bind(IF e.n > 0 THEN Dispatch(e.p) ELSE {e.p}, LAMBDA f :
          IF e.n > 0 /\ Failed(f)
          THEN endWithNegativeCondition(f, "Policy", ApplicationPolicyGenerating)
          ELSE
          Bind(Call(f, "GenerateApplicationSteps"), LAMBDA g :
           IF Failed(g)
           THEN endWithNegativeCondition(g, "Workflow", ApplicationRendering)
           ELSE
           Bind(ExecuteSteps(g), LAMBDA w :
            IF Failed(w.p)
            THEN endWithNegativeCondition(w.p, "Workflow",
                                          ApplicationRunningWorkflow)
            ELSE workflowBranch(w.p, w.state)))))))))

\* Reconcile, lines 185-214, on the object that was fetched.
reconcileFetched(p) ==
    LET q == [p EXCEPT !.app.VelaVersion = TRUE]
    IN  Bind(Call(q, "NewAppHandler"), LAMBDA h :
          IF Failed(h)
          THEN endWithNegativeCondition(h, "ReconcileError", ApplicationStarting)
          ELSE
          Bind(handleFinalizers(Log(h, "handleFinalizers", "", TRUE)), LAMBDA f :
            IF f.r.err # nil
            THEN IF ~f.p.app.DeletionTimestamp
                 THEN endWithNegativeCondition(f.p, "ReconcileError",
                                               ApplicationStarting)
                 ELSE { Out(f.p, f.r) }
            ELSE IF f.endReconcile
            THEN { Out(f.p, [f.r EXCEPT !.err = nil]) }
            ELSE renderAndRun(Log(f.p, "handleFinalizers", "continue", TRUE))))

\* Reconcile, lines 168-177: the passes whose fetch returns an error.
FetchFailures(p) ==
    { Out(Log(p, "Get", "get failed", FALSE),
          ret(result(IgnoreNotFound("get failed")))) }
    \cup
    IF ~p.obj.exists
    THEN { Out(Log(p, "Get", ErrNotFound, FALSE),
               ret(result(IgnoreNotFound(ErrNotFound)))) }
    ELSE {}

\* Reconcile, lines 158-183: fetch, controller requirement.
ReconcileOutcomes(p) ==
    FetchFailures(p)
    \cup
    IF ~p.obj.exists
    THEN {}
    ELSE LET q == Log(p, "Get", "", TRUE)
         IN  IF ~matchControllerRequirement(q.app)
             THEN { Out(Log(q, "skip", "", TRUE), [RequeueAfter |-> 0, err |-> nil]) }
             ELSE reconcileFetched(q)

\* What a finished pass leaves behind in the API server and the process.
Effect(o) ==
    <<o.p.obj, o.p.trackers, o.p.MemStore, o.p.StepStatusCache, o.p.history>>

\* One pass of the reconciler on the Application, whatever triggered it.
Reconcile ==
    \E e \in { Effect(o) : o \in ReconcileOutcomes(StartPass) } :
        /\ app' = e[1]
        /\ trackers' = e[2]
        /\ MemStore' = e[3]
        /\ StepStatusCache' = e[4]
        /\ history' = e[5]
        /\ UNCHANGED <<cfg, event, passed, queue, ds, reply>>

\* ------------------------------------------------------------ event filter
DeepEqual(a, b) == a = b

\* The tracker filter that leaves managedFields as they are.
filterResourceVersionChangesUpdate(e) ==
    IF e.ObjectNew.Kind # "ResourceTracker" \/ e.ObjectOld.Kind # "ResourceTracker"
    THEN TRUE
    ELSE LET old == e.ObjectOld
             new == [e.ObjectNew EXCEPT !.ResourceVersion = old.ResourceVersion]
         IN  ~DeepEqual(new, old)

\* filterManagedFieldChangesUpdate: the filter for objects that are not
\* Applications.
filterManagedFieldChangesUpdate(e) ==
    IF e.ObjectNew.Kind # "ResourceTracker" \/ e.ObjectOld.Kind # "ResourceTracker"
    THEN TRUE
    ELSE LET old == e.ObjectOld
             new == [e.ObjectNew EXCEPT !.ManagedFields = old.ManagedFields,
                                        !.ResourceVersion = old.ResourceVersion]
         IN  ~DeepEqual(new, old)

\* The copy of the new object after the workflow fields, the applied
\* resources, the services and the resource version were taken from old.
IgnoreWorkflowChanges(old, new) ==
    IF old.Workflow # <<>> /\ new.Workflow # <<>>
    THEN [new EXCEPT !.Workflow =
                         << [@[1] EXCEPT
                               !.Steps = old.Workflow[1].Steps,
                               !.ContextBackend = old.Workflow[1].ContextBackend,
                               !.Message = old.Workflow[1].Message] >>,
                     !.AppliedResources = old.AppliedResources,
                     !.Services = old.Services,
                     !.ResourceVersion = old.ResourceVersion]
    ELSE new

\* The filter without the early return on deep-equal objects.
UpdateFuncWithoutResync(e) ==
    IF e.ObjectNew.Kind # "Application" \/ e.ObjectOld.Kind # "Application"
    THEN filterManagedFieldChangesUpdate(e)
    ELSE LET old == e.ObjectOld
             new == [e.ObjectNew EXCEPT !.ManagedFields = old.ManagedFields]
         IN  IF old.Generation # new.Generation THEN TRUE
             ELSE ~DeepEqual(old, IgnoreWorkflowChanges(old, new))

\* The filter that takes the generation from old as it does managedFields.
UpdateFuncIgnoringGeneration(e) ==
    IF e.ObjectNew.Kind # "Application" \/ e.ObjectOld.Kind # "Application"
    THEN filterManagedFieldChangesUpdate(e)
    ELSE LET old == e.ObjectOld
         IN  IF DeepEqual(old, e.ObjectNew) THEN TRUE
             ELSE LET new == [e.ObjectNew EXCEPT !.ManagedFields = old.ManagedFields,
                                                !.Generation = old.Generation]
                  IN  ~DeepEqual(old, IgnoreWorkflowChanges(old, new))

\* predicate.Funcs.UpdateFunc: TRUE lets the notification through.
UpdateFunc(e) ==
    IF e.ObjectNew.Kind # "Application" \/ e.ObjectOld.Kind # "Application"
    THEN filterManagedFieldChangesUpdate(e)
    ELSE LET old == e.ObjectOld
         IN  IF DeepEqual(old, e.ObjectNew) THEN TRUE
             ELSE LET new == [e.ObjectNew EXCEPT !.ManagedFields = old.ManagedFields]
                  IN  IF old.Generation # new.Generation THEN TRUE
                      ELSE ~DeepEqual(old, IgnoreWorkflowChanges(old, new))

\* predicate.Funcs: CreateFunc and DeleteFunc return true, a GenericFunc
\* that is not set lets the notification through.
CreateFunc(e) == TRUE

DeleteFunc(e) == TRUE

GenericFunc(e) == TRUE

\* The handler that enqueues on either label.
handleResourceTrackerOnEitherLabel(obj, q) ==
    IF obj.Kind # "ResourceTracker" THEN q
    ELSE IF cfg.EnableResourceTrackerDeleteOnlyTrigger /\ ~obj.DeletionTimestamp
    THEN q
    ELSE IF obj.Labels = NoLabels THEN q
    ELSE LET request == [Name |-> obj.Labels[1].AppName,
                         Namespace |-> obj.Labels[1].AppNamespace]
         IN  IF request.Namespace # "" \/ request.Name # ""
             THEN q \cup {request}
             ELSE q

\* handleResourceTracker: the queue after the handler has seen obj.
handleResourceTracker(obj, q) ==
    IF obj.Kind # "ResourceTracker" THEN q
    ELSE IF cfg.EnableResourceTrackerDeleteOnlyTrigger /\ ~obj.DeletionTimestamp
    THEN q
    ELSE IF obj.Labels = NoLabels THEN q
    ELSE LET request == [Name |-> obj.Labels[1].AppName,
                         Namespace |-> obj.Labels[1].AppNamespace]
         IN  IF request.Namespace # "" /\ request.Name # ""
             THEN q \cup {request}
             ELSE q

\* The filter gives its verdict on an update notification.
FilterUpdate ==
    /\ passed = "pending"
    /\ event.Type = "Update"
    /\ passed' = IF UpdateFunc(event) THEN "passed" ELSE "suppressed"
    /\ UNCHANGED <<app, trackers, MemStore, StepStatusCache, cfg, event, queue, history, ds, reply>>

\* The filter gives its verdict on a create, delete or generic notification.
FilterObject ==
    /\ passed = "pending"
    /\ event.Type # "Update"
    /\ passed' = IF CASE event.Type = "Create" -> CreateFunc(event)
                      [] event.Type = "Delete" -> DeleteFunc(event)
                      [] OTHER -> GenericFunc(event)
                 THEN "passed" ELSE "suppressed"
    /\ UNCHANGED <<app, trackers, MemStore, StepStatusCache, cfg, event, queue, history, ds, reply>>

\* ctrlHandler.Funcs of the ResourceTracker watch: a notification that passed
\* the filter reaches the handler, which is given the (new) object.
HandleTracker ==
    /\ passed = "passed"
    /\ event.ObjectNew.Kind = "ResourceTracker"
    /\ queue' = handleResourceTracker(event.ObjectNew, queue)
    /\ passed' = "handled"
    /\ UNCHANGED <<app, trackers, MemStore, StepStatusCache, cfg, event, history, ds, reply>>

\* ------------------------------------------------------- users of the API
EditSpec ==
    /\ app.exists
    /\ ~app.DeletionTimestamp
    /\ app.Generation < MaxGeneration
    /\ app' = [app EXCEPT !.Generation = @ + 1]
    /\ UNCHANGED <<trackers, MemStore, StepStatusCache, cfg, event, passed, queue, history, ds, reply>>

DeleteApp ==
    /\ app.exists
    /\ ~app.DeletionTimestamp
    /\ app' = Settle([app EXCEPT !.DeletionTimestamp = TRUE])
    /\ UNCHANGED <<trackers, MemStore, StepStatusCache, cfg, event, passed, queue, history, ds, reply>>

RemoveOtherFinalizer ==
    /\ app.exists
    /\ app.DeletionTimestamp
    /\ OtherFinalizer \in app.Finalizers
    /\ app' = Settle([app EXCEPT !.Finalizers = @ \ {OtherFinalizer}])
    /\ UNCHANGED <<trackers, MemStore, StepStatusCache, cfg, event, passed, queue, history, ds, reply>>

Next == EditSpec \/ DeleteApp \/ RemoveOtherFinalizer \/ Reconcile

Spec == Init /\ [][Next]_vars

\* The finalizer protocol under both settings of the two flags it reads, on
\* an Application this controller is required for.
InitFinalizers ==
    /\ Init
    /\ app.ControllerRequirement = controllerVersion
    /\ ~cfg.ignoreAppNoCtrlReq
    /\ ~cfg.disableStatusUpdate

SpecFinalizers == InitFinalizers /\ [][Next]_vars

\* The controller requirement under both settings of ignoreAppNoCtrlReq.
InitRequirement ==
    /\ Init
    /\ ~cfg.EnableReconcileLoopReduction
    /\ ~cfg.EnableInMemoryContext
    /\ ~cfg.disableStatusUpdate

SpecRequirement == InitRequirement /\ [][Next]_vars

\* The finalizer protocol when a deleting object that carries the finalizer
\* eventually gets a pass in which every call succeeds.
ReconcileClean ==
    /\ app.exists
    /\ app.DeletionTimestamp
    /\ FinalizerExists(app, resourceTrackerFinalizer)
    /\ \E e \in { Effect(o) : o \in { x \in ReconcileOutcomes(StartPass) : x.p.clean } } :
           /\ app' = e[1]
           /\ trackers' = e[2]
           /\ MemStore' = e[3]
           /\ StepStatusCache' = e[4]
           /\ history' = e[5]
           /\ UNCHANGED <<cfg, event, passed, queue, ds, reply>>

LiveFinalizers == SpecFinalizers /\ WF_vars(ReconcileClean)

\* The collection of a deleting object with both flags at their defaults,
\* when passes in which every call succeeds keep being run.
InitCollection ==
    /\ InitFinalizers
    /\ ~cfg.EnableReconcileLoopReduction
    /\ ~cfg.EnableInMemoryContext

LiveCollection == InitCollection /\ [][Next]_vars /\ WF_vars(ReconcileClean)

\* The life of a new Application (generation 1, no finalizer, no tracker)
\* with the phase followed, under both settings of
\* EnableReconcileLoopReduction.
InitLifecycle ==
    /\ app = NewApp(controllerVersion, {})
    /\ trackers = NoTrackers
    /\ MemStore = {}
    /\ StepStatusCache = {}
    /\ cfg \in { c \in Configs :
                    /\ ~c.EnableInMemoryContext
                    /\ ~c.ignoreAppNoCtrlReq
                    /\ ~c.disableStatusUpdate
                    /\ c.EnableResourceTrackerDeleteOnlyTrigger }
    /\ event = NoEvent
    /\ passed = "none"
    /\ queue = {}
    /\ history = NewHistory
    /\ ds = NoComponent
    /\ reply = NoReply

\* No other controller has a finalizer on the new Application.
NextLifecycle == EditSpec \/ DeleteApp \/ Reconcile

SpecLifecycle == InitLifecycle /\ [][NextLifecycle]_vars

\* The pass that does nothing but store the finalizer (and the version
\* annotation): the first pass on a new Application when passes are not
\* fused.
ReconcileAddsFinalizer ==
    /\ app.exists
    /\ ~FinalizerExists(app, resourceTrackerFinalizer)
    /\ app' = [app EXCEPT !.Finalizers = @ \cup {resourceTrackerFinalizer},
                          !.VelaVersion = TRUE]
    /\ Reconcile

\* A step in which a status write persists running or unhealthy where
\* another phase was: a step of Reconcile, the one action that writes the
\* phase.
ReconcileSettles ==
    /\ history' # history
    /\ history'[1].Phase \in {ApplicationRunning, ApplicationUnhealthy}

\* Where a pass can persist running or unhealthy and has not done so: the
\* object carries the finalizer, is not being deleted and its workflow was
\* not terminated.
CanSettle ==
    /\ app.exists
    /\ ~app.DeletionTimestamp
    /\ FinalizerExists(app, resourceTrackerFinalizer)
    /\ ~(app.Workflow # <<>> /\ app.Workflow[1].Terminated)
    /\ history[1].Phase \notin {ApplicationRunning, ApplicationUnhealthy}

\* The Application stays at the generation it was created with.
NextCreated == DeleteApp \/ Reconcile

\* The life of a new Application when the pass that stores the finalizer
\* and the pass that persists the final phase are run whenever they stay
\* possible: every collaborator eventually succeeds and the workflow driver
\* eventually reports the workflow succeeded and finished.  The weak
\* fairness of ReconcileSettles is written out, with CanSettle for its
\* enabling condition.
LiveLifecycle ==
    /\ InitLifecycle
    /\ [][NextCreated]_vars
    /\ WF_vars(ReconcileAddsFinalizer)
    /\ ([]<>~CanSettle \/ []<><<ReconcileSettles>>_vars)

\* The passes of an Application that carries the finalizer, which reach the
\* workflow, under both settings of EnableReconcileLoopReduction and of
\* EnableInMemoryContext.
InitWorkflow ==
    /\ app = NewApp(controllerVersion, {resourceTrackerFinalizer})
    /\ trackers = NoTrackers
    /\ MemStore = {}
    /\ StepStatusCache = {}
    /\ cfg \in { c \in Configs :
                    /\ ~c.ignoreAppNoCtrlReq
                    /\ ~c.disableStatusUpdate
                    /\ c.EnableResourceTrackerDeleteOnlyTrigger }
    /\ event = NoEvent
    /\ passed = "none"
    /\ queue = {}
    /\ history = NoHistory
    /\ ds = NoComponent
    /\ reply = NoReply

SpecWorkflow == InitWorkflow /\ [][NextCreated]_vars

\* A new Application without the finalizer, deleted at some moment, under
\* both settings of the loop reduction and of disableStatusUpdate.
InitStatus ==
    /\ app = NewApp(controllerVersion, {})
    /\ trackers = NoTrackers
    /\ MemStore = {}
    /\ StepStatusCache = {}
    /\ cfg \in { c \in Configs :
                    /\ ~c.EnableInMemoryContext
                    /\ ~c.ignoreAppNoCtrlReq
                    /\ c.EnableResourceTrackerDeleteOnlyTrigger }
    /\ event = NoEvent
    /\ passed = "none"
    /\ queue = {}
    /\ history = NoHistory
    /\ ds = NoComponent
    /\ reply = NoReply

SpecStatus == InitStatus /\ [][NextCreated]_vars

\* The event filter and the ResourceTracker handler on every notification,
\* under both settings of EnableResourceTrackerDeleteOnlyTrigger.
InitFilter ==
    /\ app = NoApp
    /\ trackers = NoTrackers
    /\ MemStore = {}
    /\ StepStatusCache = {}
    /\ cfg \in { c \in Configs :
                    /\ ~c.EnableReconcileLoopReduction
                    /\ ~c.EnableInMemoryContext
                    /\ ~c.ignoreAppNoCtrlReq
                    /\ ~c.disableStatusUpdate }
    /\ event \in UpdateEvents \cup ObjectEvents
    /\ passed = "pending"
    /\ queue = {}
    /\ history = NoHistory
    /\ ds = NoComponent
    /\ reply = NoReply

NextFilter == FilterUpdate \/ FilterObject \/ HandleTracker

SpecFilter == InitFilter /\ [][NextFilter]_vars

\* ============================================================ storage items
ErrStorageTraitNotExists == "storage trait is not exists"
ErrStorageDataNotExists == "storage trait data is not exists"
ErrStorageMountPathNotExists == "storage trait mount path is not exists"
ErrStorageTraitTypeNotExists == "storage trait type is not exists"
ErrStorageTraitTypeNotSupport == "storage trait type not support"
ErrStorageTraitKeyIsExists == "storage trait data is exists"
ErrTypeAssert == "type assert error"
ErrRecordNotExist == "data record is not exist"
ErrDatastore == "datastore failure"
ErrJSON == "unexpected end of JSON input"

\* The call does not return: a nil pointer is dereferenced and nothing on
\* the way recovers.
Panic == "panic: nil pointer dereference"

\* What a call returns and leaves: the component in the datastore, whether
\* a result came back, the value in it, the error, and whether ds.Put was
\* called.
Result(comp, res, value, err, put) ==
    [comp |-> comp, res |-> res, value |-> value, err |-> err, put |-> put]

\* ds.Get on the component: the errors it can return.
GetErrors(store) ==
    {ErrDatastore} \cup IF store.exists THEN {} ELSE {ErrRecordNotExist}

\* ds.Put: the component is stored, or the call fails and nothing is.
Put(store, comp) ==
    { [comp |-> comp, err |-> nil], [comp |-> store, err |-> ErrDatastore] }

First(S) == IF S = {} THEN 0 ELSE CHOOSE i \in S : \A j \in S : i <= j

\* The first trait of type storage, which the loops over comp.Traits act
\* on and return from; 0 if there is none.
FirstStorageTrait(traits) ==
    First({ i \in DOMAIN traits : traits[i].Type = KeyStorage })

\* The entry a create request describes.
NewItem(createReq) ==
    StorageItem(createReq.MountPath,
                [k \in {createReq.DataKey} |-> createReq.DataValue])

\* Results are [properties, err].  The writes go through the map the
\* stored trait shares with the copy the caller passes.
mergeStorageItem(properties, createReq) ==
    LET typeProperties == properties[createReq.Type]
        items == typeProperties.Items
        i == First({ j \in DOMAIN items :
                       /\ items[j].hasMountPath
                       /\ items[j].mountPath = createReq.MountPath })
    IN  IF typeProperties.Kind = "absent"
        THEN IF createReq.Type = KeyConfigMap
             \* the entry itself, not a list of one entry
             THEN [properties |->
                       [properties EXCEPT ![createReq.Type] =
                            ObjectOf(NewItem(createReq))],
                   err |-> nil]
             ELSE [properties |-> properties, err |-> nil]
        ELSE IF typeProperties.Kind # "list"
        THEN [properties |-> properties, err |-> ErrTypeAssert]
        ELSE IF i # 0 /\ items[i].hasData
        THEN IF createReq.DataKey \in DOMAIN items[i].data
             THEN [properties |-> properties, err |-> ErrStorageTraitKeyIsExists]
             ELSE [properties |->
                       [properties EXCEPT ![createReq.Type].Items[i].data =
                            [k \in DOMAIN @ \cup {createReq.DataKey} |->
                                IF k = createReq.DataKey
                                THEN createReq.DataValue ELSE @[k]]],
                   err |-> nil]
        \* no entry with the mount path, or the first one has no data
        \* (break): a new entry is appended
        ELSE [properties |->
                  [properties EXCEPT ![createReq.Type].Items =
                       Append(@, NewItem(createReq))],
              err |-> nil]

\* Results are [trait, err].
creatStorageTraitAndItem(createReq) ==
    IF createReq.Type = KeyConfigMap
    THEN [trait |-> Trait(KeyStorage,
                          [NoProperties EXCEPT ![createReq.Type] =
                               ListOf(<< NewItem(createReq) >>)]),
          err |-> nil]
    ELSE [trait |-> Trait(KeyStorage, NoProperties),
          err |-> ErrStorageTraitTypeNotSupport]

\* storageTrait = &trait takes the address of the loop variable: of the
\* last storage trait where every iteration has its own variable, of the
\* last trait of any type where the loop has one variable.
StorageTraitPointers(traits) ==
    { Len(traits),
      CHOOSE i \in DOMAIN traits :
          /\ traits[i].Type = KeyStorage
          /\ \A j \in DOMAIN traits : traits[j].Type = KeyStorage => j <= i }

\* Without a storage trait the new trait is assigned to a variable of the
\* else block; the outer storageTrait is nil when the return statement
\* reads its Properties.
CreateComponentStorageItem(store, createReq) ==
    { Result(store, FALSE, "", e, FALSE) : e \in GetErrors(store) }
    \cup
    IF ~store.exists THEN {}
    ELSE
    IF FirstStorageTrait(store.Traits) # 0
    THEN UNION {
           LET m == mergeStorageItem(store.Traits[t].Properties, createReq)
               comp == [store EXCEPT !.Traits[t].Properties = m.properties]
           IN  IF m.err # nil
               THEN { Result(store, FALSE, "", m.err, FALSE) }
               ELSE { Result(w.comp, w.err = nil, "", w.err, TRUE)
                      : w \in Put(store, comp) }
           : t \in StorageTraitPointers(store.Traits) }
    ELSE
    LET c == creatStorageTraitAndItem(createReq)
        comp == [store EXCEPT !.Traits = Append(@, c.trait)]
    IN  IF c.err # nil
        THEN { Result(store, FALSE, "", c.err, FALSE) }
        ELSE { IF w.err # nil
               THEN Result(w.comp, FALSE, "", w.err, TRUE)
               ELSE Result(w.comp, FALSE, "", Panic, TRUE)
               : w \in Put(store, comp) }

UpdateComponentStorageItem(store, updateReq) ==
    { Result(store, FALSE, "", e, FALSE) : e \in GetErrors(store) }
    \cup
    IF ~store.exists THEN {}
    ELSE
    LET t == FirstStorageTrait(store.Traits)
    IN  IF t = 0
        THEN { Result(store, FALSE, "", ErrStorageTraitNotExists, FALSE) }
        ELSE
        LET typeProperties == store.Traits[t].Properties[updateReq.Type]
            items == typeProperties.Items
            i == First({ j \in DOMAIN items :
                           \/ ~items[j].hasMountPath
                           \/ items[j].mountPath = updateReq.MountPath })
        IN  IF typeProperties.Kind = "absent"
            THEN { Result(store, FALSE, "", ErrStorageTraitTypeNotExists, FALSE) }
            ELSE IF typeProperties.Kind # "list"
            \* the type assertion panics and the deferred recover returns
            \* the zero values
            THEN { Result(store, FALSE, "", nil, FALSE) }
            ELSE IF i = 0
            THEN { Result(store, FALSE, "", ErrStorageMountPathNotExists, FALSE) }
            ELSE IF ~items[i].hasMountPath
            THEN { Result(store, FALSE, "", ErrStorageMountPathNotExists, FALSE) }
            ELSE IF ~items[i].hasData
            THEN { Result(store, FALSE, "", ErrStorageDataNotExists, FALSE) }
            ELSE IF updateReq.DataKey \notin DOMAIN items[i].data
            THEN { Result(store, FALSE, "", ErrStorageDataNotExists, FALSE) }
            ELSE
            LET comp == [store EXCEPT
                           !.Traits[t].Properties[updateReq.Type].Items[i].data[
                               updateReq.DataKey] = updateReq.DataValue]
            IN  { Result(w.comp, w.err = nil, "", w.err, TRUE)
                  : w \in Put(store, comp) }

\* gjson.Get(propJSON, "configMap.#(mountPath==\"m\")"): the first entry
\* of the configMap list whose mountPath is m; 0 if there is none or
\* configMap is not a list.
QueryMountPath(properties, mountPath) ==
    LET c == properties[KeyConfigMap]
    IN  IF c.Kind # "list" THEN 0
        ELSE First({ i \in DOMAIN c.Items :
                       /\ c.Items[i].hasMountPath
                       /\ c.Items[i].mountPath = mountPath })

\* The document without the key goes to trait, the loop's copy of the
\* element of comp.Traits, so comp is put as it was fetched.  sjson.Set
\* either takes the query path or, in the releases that reject it, leaves
\* an empty string that json.Unmarshal refuses.
DeleteComponentStorageItem(store, itemOptions) ==
    { Result(store, FALSE, "", e, FALSE) : e \in GetErrors(store) }
    \cup
    IF ~store.exists THEN {}
    ELSE
    LET t == FirstStorageTrait(store.Traits)
    IN  IF t = 0
        THEN { Result(store, FALSE, "", ErrStorageTraitNotExists, FALSE) }
        ELSE
        LET properties == store.Traits[t].Properties
            i == QueryMountPath(properties, itemOptions.MountPath)
        IN  IF i = 0
            THEN { Result(store, FALSE, "", ErrStorageDataNotExists, FALSE) }
            ELSE IF ~properties[KeyConfigMap].Items[i].hasData
            THEN { Result(store, FALSE, "", ErrStorageDataNotExists, FALSE) }
            ELSE { Result(w.comp, FALSE, "", w.err, TRUE) : w \in Put(store, store) }
                 \cup { Result(store, FALSE, "", ErrJSON, FALSE) }

DetailComponentStorageItem(store, itemOptions) ==
    { Result(store, FALSE, "", e, FALSE) : e \in GetErrors(store) }
    \cup
    IF ~store.exists THEN {}
    ELSE
    LET t == FirstStorageTrait(store.Traits)
    IN  IF t = 0
        THEN { Result(store, FALSE, "", ErrStorageTraitNotExists, FALSE) }
        ELSE
        LET properties == store.Traits[t].Properties
            i == QueryMountPath(properties, itemOptions.MountPath)
        IN  IF i = 0
            THEN { Result(store, FALSE, "", ErrStorageDataNotExists, FALSE) }
            ELSE
            LET item == properties[KeyConfigMap].Items[i]
            IN  IF ~item.hasData \/ itemOptions.DataKey \notin DOMAIN item.data
                THEN { Result(store, FALSE, "", ErrStorageDataNotExists, FALSE) }
                ELSE { Result(store, TRUE, item.data[itemOptions.DataKey], nil, FALSE) }

Replied(op, req, o) ==
    [op |-> op, req |-> req, before |-> ds, res |-> o.res, value |-> o.value,
     err |-> o.err, put |-> o.put]

reconcilerVars ==
    <<app, trackers, MemStore, StepStatusCache, cfg, event, passed, queue, history>>

\* No list of the component has more than MaxItems entries.
WithinBounds(comp) ==
    \A t \in DOMAIN comp.Traits :
        \A type \in StorageTypes :
            Len(comp.Traits[t].Properties[type].Items) <= MaxItems

CreateItem ==
    \E req \in StorageItemRequest :
        \E o \in CreateComponentStorageItem(ds, req) :
            /\ WithinBounds(o.comp)
            /\ ds' = o.comp
            /\ reply' = Replied("Create", req, o)
            /\ UNCHANGED reconcilerVars

UpdateItem ==
    \E req \in StorageItemRequest :
        \E o \in UpdateComponentStorageItem(ds, req) :
            /\ ds' = o.comp
            /\ reply' = Replied("Update", req, o)
            /\ UNCHANGED reconcilerVars

DeleteItem ==
    \E req \in StorageItemOptions :
        \E o \in DeleteComponentStorageItem(ds, req) :
            /\ ds' = o.comp
            /\ reply' = Replied("Delete", req, o)
            /\ UNCHANGED reconcilerVars

DetailItem ==
    \E req \in StorageItemOptions :
        \E o \in DetailComponentStorageItem(ds, req) :
            /\ ds' = o.comp
            /\ reply' = Replied("Detail", req, o)
            /\ UNCHANGED reconcilerVars

\* The storage-item calls on a component with every property document up
\* to MaxItems entries per list.
InitStorage ==
    /\ app = NoApp
    /\ trackers = NoTrackers
    /\ MemStore = {}
    /\ StepStatusCache = {}
    /\ cfg \in { c \in Configs :
                    /\ ~c.EnableReconcileLoopReduction
                    /\ ~c.EnableInMemoryContext
                    /\ ~c.ignoreAppNoCtrlReq
                    /\ ~c.disableStatusUpdate
                    /\ c.EnableResourceTrackerDeleteOnlyTrigger }
    /\ event = NoEvent
    /\ passed = "none"
    /\ queue = {}
    /\ history = NoHistory
    /\ ds \in Components \cup {NoComponent}
    /\ reply = NoReply

NextStorage == CreateItem \/ UpdateItem \/ DeleteItem \/ DetailItem

SpecStorage == InitStorage /\ [][NextStorage]_vars

\* ============================================= process-wide per-object state
\* Applications of one process: Kubernetes names and namespaces may hold
\* the separator of the cache key.
Identities == [Name : {"a", "a-b"}, Namespace : {"c", "b-c"}]

StepProgress == {0, 2}

\* The caches the workflow driver may have left: at most one entry per key.
StepStatusCaches ==
    { c \in SUBSET ({ CacheKey(i.Name, i.Namespace) : i \in Identities }
                     \X StepProgress) :
        \A x, y \in c : x[1] = y[1] => x = y }

\* The cache entry a pass for id reads, as the set of its values.
Entry(cache, id) ==
    { e[2] : e \in { x \in cache : x[1] = CacheKey(id.Name, id.Namespace) } }

\* The in-memory workflow context a pass for id reads.
Context(store, id) == id.Name \in store

\* patchStatus and updateStatus, lines 478-480 and 496-499, in a pass for
\* id whose status write failed.
InvalidateFor(id) ==
    /\ StepStatusCache' = Store(StepStatusCache, CacheKey(id.Name, id.Namespace), -1)
    /\ UNCHANGED <<app, trackers, MemStore, cfg, event, passed, queue, history,
                   ds, reply>>

\* handleFinalizers, lines 457-459, in a pass for a deleting id whose
\* trackers are still listed.
DeleteContextFor(id) ==
    /\ cfg.EnableInMemoryContext
    /\ MemStore' = DeleteInMemoryContext(MemStore, id.Name)
    /\ UNCHANGED <<app, trackers, StepStatusCache, cfg, event, passed, queue,
                   history, ds, reply>>

FailedStatusWrite == \E id \in Identities : InvalidateFor(id)

ConfirmedTeardown == \E id \in Identities : DeleteContextFor(id)

InitIsolation ==
    /\ app = NoApp
    /\ trackers = NoTrackers
    /\ MemStore \in SUBSET { i.Name : i \in Identities }
    /\ StepStatusCache \in StepStatusCaches
    /\ cfg \in { c \in Configs :
                    /\ ~c.EnableReconcileLoopReduction
                    /\ c.EnableInMemoryContext
                    /\ ~c.ignoreAppNoCtrlReq
                    /\ ~c.disableStatusUpdate
                    /\ c.EnableResourceTrackerDeleteOnlyTrigger }
    /\ event = NoEvent
    /\ passed = "none"
    /\ queue = {}
    /\ history = NoHistory
    /\ ds = NoComponent
    /\ reply = NoReply

NextIsolation == FailedStatusWrite \/ ConfirmedTeardown

SpecIsolation == InitIsolation /\ [][NextIsolation]_vars

\* ============================================================== properties
\* Every pass the reconciler can make from the current state, with its log.
Outcomes == ReconcileOutcomes(TracedPass)

Has(o, op) == \E i \in DOMAIN o.p.log : o.p.log[i].op = op

HasOk(o, op) == \E i \in DOMAIN o.p.log : o.p.log[i].op = op /\ o.p.log[i].ok

\* What the listings of the pass returned.
Listed(o) ==
    { o.p.log[i].arg : i \in { j \in DOMAIN o.p.log :
          o.p.log[j].op = "ListApplicationResourceTrackers" /\ o.p.log[j].ok } }

StatusWrites(o) ==
    { i \in DOMAIN o.p.log : o.p.log[i].op \in {"Status().Patch", "Status().Update"} }

\* The pass came as far as handleFinalizers.
ReachedFinalizers(o) == Has(o, "handleFinalizers")

Stored == <<app, trackers, MemStore, StepStatusCache, history>>

Deleting == app.exists /\ app.DeletionTimestamp

HasFinalizer == resourceTrackerFinalizer \in app.Finalizers

KeepsFinalizer(o) == resourceTrackerFinalizer \in o.p.obj.Finalizers

\* The parse is the first of the stages (parse, revision, policy, workflow,
\* state-keep): a pass that runs any of them has called the parser.
RunsStages(o) == Has(o, "GenerateAppFile")

\* C1: handleFinalizers removes the resource-tracker finalizer only from an
\* object that carries a deletion timestamp and only after the listing of
\* its trackers returned none of the four kinds; and in every step in which
\* the stored object loses the finalizer, the object carries a deletion
\* timestamp and no tracker of it is alive before or after the step.
FinalizerRemovedOnlyWithoutTrackers ==
    /\ [](\A f \in handleFinalizers(TracedPass) :
              (Has(f, "RemoveFinalizer") \/ (HasFinalizer /\ ~KeepsFinalizer(f)))
              => /\ Has(f, "RemoveFinalizer")
                 /\ app.DeletionTimestamp
                 /\ Listed(f) = {ListedNone}
                 /\ trackers = NoTrackers
                 /\ f.p.trackers = NoTrackers)
    /\ [][(HasFinalizer /\ ~HasFinalizer')
           => /\ app.DeletionTimestamp
              /\ trackers = NoTrackers
              /\ trackers' = NoTrackers]_vars

FinalizerRemovedWitness ==
    /\ app.ObservedGeneration > 0
    /\ \E o \in Outcomes : Has(o, "RemoveFinalizer") /\ ~KeepsFinalizer(o)

\* On a deleting object that carries the finalizer and has no trackers, a
\* pass in which every call succeeds removes the finalizer.
CleanPassRemovesFinalizer ==
    (Deleting /\ HasFinalizer /\ trackers = NoTrackers)
    => \A o \in Outcomes :
           o.p.clean => /\ Has(o, "RemoveFinalizer")
                        /\ ~KeepsFinalizer(o)
                        /\ o.err = nil

\* C2: once the trackers of a deleting object that carries the finalizer
\* are gone, every pass in which all calls succeed (listing, collection,
\* status write, update) removes the finalizer, and so the finalizer is
\* eventually removed when such a pass is eventually run.
FinalizerEventuallyRemoved ==
    /\ []CleanPassRemovesFinalizer
    /\ (Deleting /\ HasFinalizer /\ trackers = NoTrackers) ~> ~HasFinalizer

TrackersGoneWitness ==
    /\ Deleting /\ HasFinalizer /\ trackers = NoTrackers
    /\ app.ObservedGeneration > 0
    /\ \E o \in Outcomes : o.p.clean /\ ~o.p.obj.exists

\* C3 as stated: on a deleting object that carries the finalizer, a pass in
\* which every call succeeds and after whose collection no tracker is left
\* removes the finalizer and persists the object.
RemovedWhenAbsentAfterCollection ==
    (Deleting /\ HasFinalizer)
    => \A o \in Outcomes :
           (o.p.clean /\ Has(o, "GarbageCollect") /\ o.p.trackers = NoTrackers)
           => (Has(o, "RemoveFinalizer") /\ ~KeepsFinalizer(o))

\* C3 (amended): on a deleting object that carries the finalizer, the
\* finalizer is removed exactly in the passes whose listing, taken before
\* the collection of that pass, returned none of the four kinds and whose
\* collection and status write returned no error; the removal is followed
\* by an Update and persisted exactly if that Update succeeds.  Trackers
\* that the collection of this pass reaps do not lead to the removal in
\* this pass.
RemovedWhenAbsentBeforeCollection ==
    (Deleting /\ HasFinalizer)
    => \A o \in Outcomes :
           /\ Has(o, "RemoveFinalizer")
              <=> /\ Listed(o) = {ListedNone}
                  /\ HasOk(o, "GarbageCollect")
                  /\ \A i \in StatusWrites(o) : o.p.log[i].ok
           /\ Has(o, "RemoveFinalizer")
              => /\ Has(o, "Update")
                 /\ HasOk(o, "Update") <=> ~KeepsFinalizer(o)
           /\ (Listed(o) # {ListedNone} /\ ReachedFinalizers(o))
              => KeepsFinalizer(o)

ReapedInThisPassWitness ==
    /\ Deleting /\ HasFinalizer /\ trackers # NoTrackers
    /\ \E o \in Outcomes :
           /\ o.p.clean
           /\ o.p.trackers = NoTrackers
           /\ KeepsFinalizer(o)

\* C4: a pass on a deleting object that carries the finalizer never runs
\* the parse, revision, policy, workflow or state-keep stages; once it has
\* entered handleFinalizers it ends there.  If trackers were listed, the
\* finalizer stays, the object is not updated, every status write carries
\* phase Deleting, and the pass returns an error or a positive requeue
\* delay.
DeletingEndsInFinalizers ==
    (Deleting /\ HasFinalizer)
    => \A o \in Outcomes :
           /\ ~RunsStages(o)
           /\ ~(\E i \in DOMAIN o.p.log :
                    o.p.log[i] = Ev("handleFinalizers", "continue", TRUE))
           /\ (ReachedFinalizers(o) /\ Listed(o) # {ListedNone})
              => /\ KeepsFinalizer(o)
                 /\ ~Has(o, "Update")
                 /\ \A i \in StatusWrites(o) : o.p.log[i].arg = ApplicationDeleting
                 /\ (o.err # nil \/ o.RequeueAfter > 0)

TrackersRemainWitness ==
    /\ Deleting /\ HasFinalizer
    /\ \E o \in Outcomes :
           /\ Listed(o) # {} /\ Listed(o) # {ListedNone}
           /\ o.p.trackers # NoTrackers
           /\ o.err = nil
           /\ o.RequeueAfter = baseGCBackoffWaitTime
           /\ \E i \in StatusWrites(o) : o.p.log[i].ok

\* C5: on an object that is not deleting and does not carry the finalizer,
\* handleFinalizers adds the finalizer and updates the object.  If the
\* update succeeds the stored object carries the finalizer and, with
\* EnableReconcileLoopReduction off, the pass ends there without error and
\* is requeued after the resync period; with the flag on, the pass goes on
\* into parsing.
FinalizerAddedFirst ==
    (app.exists /\ ~app.DeletionTimestamp /\ ~HasFinalizer)
    => \A o \in Outcomes :
           ReachedFinalizers(o)
           => /\ Has(o, "AddFinalizer") /\ Has(o, "Update")
              /\ HasOk(o, "Update")
                 => /\ KeepsFinalizer(o)
                    /\ ~cfg.EnableReconcileLoopReduction
                       => /\ ~RunsStages(o)
                          /\ StatusWrites(o) = {}
                          /\ o.err = nil
                          /\ o.RequeueAfter = ApplicationReSyncPeriod
                    /\ cfg.EnableReconcileLoopReduction
                       => Has(o, "GenerateAppFile")

FinalizerAddedWitness ==
    /\ app.exists /\ ~app.DeletionTimestamp /\ ~HasFinalizer
    /\ ~cfg.EnableReconcileLoopReduction
    /\ \E o \in Outcomes :
           /\ HasOk(o, "Update")
           /\ KeepsFinalizer(o)
           /\ o.RequeueAfter = ApplicationReSyncPeriod

\* C6: in the pass that removes the finalizer, the in-memory workflow
\* context of the object has been deleted.
ContextDeletedWhenFinalizerRemoved ==
    \A o \in Outcomes :
        Has(o, "RemoveFinalizer") => AppName \notin o.p.MemStore

\* C7: on an object that is not deleting and carries the finalizer, and on
\* an object that is deleting and does not carry it, handleFinalizers
\* writes nothing, collects nothing and lets the pass continue: the call
\* that follows it is the parse.
NothingToDoContinues ==
    (app.exists /\ (app.DeletionTimestamp <=> ~HasFinalizer))
    => /\ handleFinalizers(TracedPass)
          = { [p |-> TracedPass, endReconcile |-> FALSE,
               r |-> [RequeueAfter |-> ApplicationReSyncPeriod, err |-> nil]] }
       /\ \A o \in Outcomes :
              \A i \in DOMAIN o.p.log :
                  o.p.log[i] = Ev("handleFinalizers", "", TRUE)
                  => /\ Len(o.p.log) >= i + 2
                     /\ o.p.log[i + 1] = Ev("handleFinalizers", "continue", TRUE)
                     /\ o.p.log[i + 2].op = "GenerateAppFile"

NothingToDoWitness ==
    /\ Deleting /\ ~HasFinalizer
    /\ \E o \in Outcomes : HasOk(o, "GenerateAppFile")

\* C8: a pass on an object that does not exist does nothing but the fetch:
\* when the fetch reports not-found the pass ends without error and writes
\* nothing; a pass whose fetch fails in another way returns that error and
\* writes nothing.
NotFoundIsNoError ==
    /\ ~app.exists => Outcomes = FetchFailures(TracedPass)
    /\ \A o \in FetchFailures(TracedPass) :
           /\ o.p.log = << Ev("Get", o.p.log[1].arg, FALSE) >>
           /\ Effect(o) = Stored
           /\ o.p.log[1].arg = ErrNotFound => (~app.exists /\ o.err = nil)
           /\ o.p.log[1].arg # ErrNotFound => o.err = o.p.log[1].arg
           /\ o.RequeueAfter = IF o.err = nil THEN ApplicationReSyncPeriod ELSE 0

NotFoundWitness ==
    /\ ~app.exists
    /\ \E o \in Outcomes : o.p.log[1].arg = ErrNotFound /\ o.err = nil

\* C9: an object whose controller-requirement annotation is present and
\* differs from the controller's version, or is absent while
\* ignoreAppNoCtrlReq is set, is skipped: the pass ends after the fetch
\* without error, without requeue and without any effect.  An object whose
\* annotation equals the controller's version, or is absent while the
\* option is off, is never skipped.
SkippedExactlyOnMismatch ==
    app.exists
    => \A o \in Outcomes :
           o.p.log[1].ok
           => IF \/ app.ControllerRequirement \notin {NoAnnotation, controllerVersion}
                 \/ app.ControllerRequirement = NoAnnotation /\ cfg.ignoreAppNoCtrlReq
              THEN /\ o.p.log = << Ev("Get", "", TRUE), Ev("skip", "", TRUE) >>
                   /\ o.err = nil
                   /\ o.RequeueAfter = 0
                   /\ Effect(o) = Stored
              ELSE /\ ~Has(o, "skip")
                   /\ Has(o, "NewAppHandler")

SkippedWitness ==
    /\ app.exists
    /\ app.ControllerRequirement = NoAnnotation
    /\ cfg.ignoreAppNoCtrlReq
    /\ \E o \in Outcomes : Has(o, "skip")

\* C10: the update filter never suppresses a notification whose old and new
\* objects differ in generation, whatever else differs or is equal.
GenerationChangePasses ==
    passed = "suppressed" => event.ObjectOld.Generation = event.ObjectNew.Generation

GenerationChangeWitness ==
    /\ passed = "passed"
    /\ event.ObjectOld.Kind = "Application"
    /\ event.ObjectNew.Kind = "Application"
    /\ event.ObjectOld.Generation # event.ObjectNew.Generation
    /\ event.ObjectOld.Workflow # <<>>
    /\ event.ObjectNew.Workflow # <<>>
    /\ event.ObjectNew.Phase = event.ObjectOld.Phase
    /\ event.ObjectNew.Workflow[1].Terminated = event.ObjectOld.Workflow[1].Terminated

\* The notification is about two objects of that kind.
BothOfKind(kind) == event.ObjectOld.Kind = kind /\ event.ObjectNew.Kind = kind

\* The two objects differ, and only in the workflow step list, context
\* backend and message, the applied resources, the services and the
\* resource version; the workflow status is on both sides or on neither.
OnlyWorkflowChanges(old, new) ==
    /\ old # new
    /\ old.Generation = new.Generation
    /\ old.ManagedFields = new.ManagedFields
    /\ old.Phase = new.Phase
    /\ (old.Workflow = <<>>) <=> (new.Workflow = <<>>)
    /\ old.Workflow # <<>> => old.Workflow[1].Terminated = new.Workflow[1].Terminated

\* C11: an Application update whose objects differ only in the workflow step
\* list, context backend, message, applied resources, services and resource
\* version is suppressed, whether or not they carry a workflow status.
WorkflowChangesSuppressed ==
    (passed # "pending" /\ BothOfKind("Application")
     /\ OnlyWorkflowChanges(event.ObjectOld, event.ObjectNew))
    => passed = "suppressed"

\* C12 as stated: an Application update whose objects are deep-equal is
\* suppressed.
DeepEqualSuppressed ==
    (passed # "pending" /\ BothOfKind("Application")
     /\ event.ObjectOld = event.ObjectNew)
    => passed = "suppressed"

\* C12 (amended): an Application update whose objects are deep-equal is
\* taken for a resync and passes the filter; an update whose objects become
\* deep-equal once managedFields are taken from the old object is
\* suppressed.
DeepEqualPasses ==
    (passed # "pending" /\ BothOfKind("Application"))
    => /\ event.ObjectOld = event.ObjectNew => passed = "passed"
       /\ (event.ObjectOld # event.ObjectNew
           /\ event.ObjectOld
              = [event.ObjectNew EXCEPT !.ManagedFields = event.ObjectOld.ManagedFields])
          => passed = "suppressed"

DeepEqualWitness ==
    /\ passed = "passed"
    /\ BothOfKind("Application")
    /\ event.ObjectOld = event.ObjectNew
    /\ event.ObjectOld.Workflow # <<>>

\* C13: an update whose objects differ in managedFields only is suppressed,
\* for Applications and for ResourceTrackers; for ResourceTrackers a
\* difference in the resource version is ignored as well.
ManagedFieldsChangeSuppressed ==
    (passed # "pending" /\ event.Type = "Update")
    => /\ (/\ BothOfKind("Application") \/ BothOfKind("ResourceTracker")
           /\ event.ObjectOld # event.ObjectNew
           /\ event.ObjectOld
              = [event.ObjectNew EXCEPT !.ManagedFields = event.ObjectOld.ManagedFields])
          => passed = "suppressed"
       /\ (/\ BothOfKind("ResourceTracker")
           /\ event.ObjectOld
              = [event.ObjectNew EXCEPT
                   !.ManagedFields = event.ObjectOld.ManagedFields,
                   !.ResourceVersion = event.ObjectOld.ResourceVersion])
          => passed = "suppressed"

ManagedFieldsChangeWitness ==
    /\ passed = "suppressed"
    /\ BothOfKind("ResourceTracker")
    /\ event.ObjectOld.ManagedFields # event.ObjectNew.ManagedFields
    /\ event.ObjectOld.ResourceVersion # event.ObjectNew.ResourceVersion

\* ---------------------------------------------------------------- C14
TrackerEvent == event.ObjectNew.Kind = "ResourceTracker"

\* The request naming the Application the tracker's labels point at.
OwnerRequest(o) ==
    [Name |-> o.Labels[1].AppName, Namespace |-> o.Labels[1].AppNamespace]

Labelled(o) ==
    /\ o.Labels # NoLabels
    /\ o.Labels[1].AppName # ""
    /\ o.Labels[1].AppNamespace # ""

\* An update of a tracker that changes nothing but managedFields and the
\* resource version.
ManagedFieldsOnly ==
    /\ event.Type = "Update"
    /\ event.ObjectOld.Kind = "ResourceTracker"
    /\ event.ObjectOld = [event.ObjectNew EXCEPT
                            !.ManagedFields = event.ObjectOld.ManagedFields,
                            !.ResourceVersion = event.ObjectOld.ResourceVersion]

\* C14: a ResourceTracker notification enqueues a request only when it
\* passed the filter, the tracker carries a deletion timestamp or
\* EnableResourceTrackerDeleteOnlyTrigger is off, and both owner labels are
\* non-empty; the request then names exactly the labelled Application and
\* nothing else is enqueued.  With the flag off every notification of a
\* labelled tracker other than a managedFields-only update is let through
\* and enqueues.
TrackerEnqueuesOwner ==
    TrackerEvent =>
        LET o == event.ObjectNew
            due == /\ ~cfg.EnableResourceTrackerDeleteOnlyTrigger \/ o.DeletionTimestamp
                   /\ Labelled(o)
        IN  /\ passed # "handled" => queue = {}
            /\ passed = "handled" =>
                   queue = IF due THEN {OwnerRequest(o)} ELSE {}
            /\ (~ManagedFieldsOnly /\ passed # "pending") =>
                   passed \in {"passed", "handled"}
            /\ ManagedFieldsOnly => passed \in {"pending", "suppressed"}

TrackerEnqueuesOwnerWitness ==
    /\ TrackerEvent
    /\ event.Type = "Update"
    /\ passed = "handled"
    /\ cfg.EnableResourceTrackerDeleteOnlyTrigger
    /\ event.ObjectNew.DeletionTimestamp
    /\ queue = {[Name |-> AppName, Namespace |-> AppNamespace]}

\* ---------------------------------------------------------------- C15
\* Every pass from the current state, with its failed calls, what the
\* workflow driver reported and whether the pass was skipped.
WatchedOutcomes == ReconcileOutcomes(WatchFailures({"ExecuteSteps", "skip"}))

\* The calls of a pass that failed, other than the state-keep call, whose
\* failure the pass records and survives.
Failures(o) ==
    { i \in DOMAIN o.p.log : ~o.p.log[i].ok /\ o.p.log[i].op # "StateKeep" }

NotFound(o) ==
    \E i \in DOMAIN o.p.log :
        o.p.log[i].op = "Get" /\ o.p.log[i].arg = ErrNotFound

Reported(o, states) ==
    \E i \in DOMAIN o.p.log :
        /\ o.p.log[i].op = "ExecuteSteps"
        /\ o.p.log[i].ok
        /\ o.p.log[i].arg \in states

\* C15: a pass in which a call failed returns an error, unless the failure
\* is the object not being found; a pass that returns no error returns a
\* positive requeue delay, unless the object was not found, the controller
\* requirement did not match or the workflow driver reported Skipping; and
\* whatever earlier passes left behind, an object that exists has a pass in
\* which every call succeeds.
NoTerminalFailure ==
    LET passes == WatchedOutcomes
    IN  /\ \A o \in passes :
              /\ (Failures(o) # {} /\ ~NotFound(o)) => o.err # nil
              /\ o.err = nil =>
                    \/ o.RequeueAfter > 0
                    \/ NotFound(o)
                    \/ Has(o, "skip")
                    \/ Reported(o, {"Skipping"})
        /\ app.exists => \E o \in passes : o.p.clean

\* A status write failed after a collection that was not finished: the pass
\* returns the error together with the fixed delay.
NoTerminalFailureWitness ==
    \E o \in WatchedOutcomes :
        /\ \E i \in Failures(o) : o.p.log[i].op = "Status().Patch"
        /\ o.err # nil
        /\ o.RequeueAfter = baseGCBackoffWaitTime
        /\ StepStatusCache # {}

\* ---------------------------------------------------------------- C16
\* The conditions endWithNegativeCondition is called with.
NegativeConditions == {"ReconcileError", "Parsed", "Revision", "Policy", "Workflow"}

ExitsNegative(o) ==
    \E i \in DOMAIN o.p.log :
        o.p.log[i].op = "SetConditions" /\ o.p.log[i].arg \in NegativeConditions

\* C16: a pass that exits through a negative condition leaves the stored
\* observedGeneration as it was.
NegativeExitKeepsObservedGeneration ==
    \A o \in ReconcileOutcomes(Watch({"SetConditions"})) :
        (ExitsNegative(o) /\ o.p.obj.exists)
        => o.p.obj.ObservedGeneration = app.ObservedGeneration

\* ---------------------------------------------------------------- C17
UpdatedOk(o) ==
    \E i \in DOMAIN o.p.log : o.p.log[i].op = "Update" /\ o.p.log[i].ok

\* C17: whatever calls fail, a pass leaves the generation, the controller
\* requirement and the deletion timestamp of the stored object as they
\* were; each Client.Update of the pass directly follows the addition or
\* the removal of the finalizer; the finalizers and the version annotation
\* change only in a pass whose Update succeeded, the finalizers by nothing
\* but the tracker finalizer; the object disappears only on the successful
\* Update that removed the finalizer.  Every other write is a status write.
PassWritesFinalizersOnly ==
    app.exists =>
    \A o \in ReconcileOutcomes(Watch({"AddFinalizer", "RemoveFinalizer", "Update"})) :
        LET log == o.p.log
            new == o.p.obj
        IN  /\ \A i \in DOMAIN log :
                  log[i].op = "Update"
                  => i > 1 /\ log[i - 1].op \in {"AddFinalizer", "RemoveFinalizer"}
            /\ new.exists =>
                  /\ new.Generation = app.Generation
                  /\ new.ControllerRequirement = app.ControllerRequirement
                  /\ new.DeletionTimestamp = app.DeletionTimestamp
                  /\ new.Finalizers \ {resourceTrackerFinalizer}
                     = app.Finalizers \ {resourceTrackerFinalizer}
                  /\ ~UpdatedOk(o) => /\ new.Finalizers = app.Finalizers
                                      /\ new.VelaVersion = app.VelaVersion
            /\ ~new.exists =>
                  /\ UpdatedOk(o)
                  /\ Has(o, "RemoveFinalizer")
                  /\ app.Finalizers = {resourceTrackerFinalizer}

\* A pass on an object without the finalizer whose Update failed and whose
\* status write succeeded: the stored object has a new observedGeneration
\* and the finalizers it had.
PassWritesFinalizersOnlyWitness ==
    /\ app.exists
    /\ ~FinalizerExists(app, resourceTrackerFinalizer)
    /\ app.ObservedGeneration # app.Generation
    /\ \E o \in ReconcileOutcomes(Watch({"AddFinalizer", "RemoveFinalizer", "Update"})) :
           /\ Has(o, "Update")
           /\ ~UpdatedOk(o)
           /\ o.p.obj.ObservedGeneration = app.Generation
           /\ o.p.obj.Finalizers = app.Finalizers

\* ---------------------------------------------------------------- C18
\* The object is not being deleted, carries the finalizer, its generation is
\* observed, no superseded tracker is left to collect and the last status
\* write persisted a final phase.
SteadyState ==
    /\ app.exists
    /\ ~app.DeletionTimestamp
    /\ FinalizerExists(app, resourceTrackerFinalizer)
    /\ app.ObservedGeneration = app.Generation
    /\ ~trackers.history
    /\ ~trackers.cv
    /\ history # NoHistory
    /\ history[1].Phase \in {ApplicationRunning, ApplicationUnhealthy,
                             ApplicationWorkflowTerminated}

SteadyPasses ==
    { o \in ReconcileOutcomes(Watch({"ExecuteSteps", "Update", "Status().Patch",
                                     "Status().Update"})) :
        o.p.clean /\ Reported(o, {"Finished"}) }

Writes(o) ==
    { i \in DOMAIN o.p.log : o.p.log[i].op \in {"Status().Patch", "Status().Update"} }

Collections ==
    gcResourceTrackers(Watch({"GarbageCollect"}), ApplicationDeleting, TRUE)

\* A collection whose status write succeeded requeues with the fixed delay
\* exactly when it leaves a tracker behind.
FixedBackoffWhileCollecting ==
    (Deleting /\ HasFinalizer)
    => \A g \in Collections :
           g.r.err = nil
           => /\ g.p.trackers # NoTrackers
                 => g.r.RequeueAfter = baseGCBackoffWaitTime
              /\ g.p.trackers = NoTrackers
                 => g.r.RequeueAfter = ApplicationReSyncPeriod

\* C19: while the collection of a deleting object leaves trackers behind,
\* the pass requeues with the fixed delay and without error; when passes in
\* which every call succeeds and the collection reaps something keep being
\* run, the trackers are eventually all gone, the collection reports
\* finished and the fixed delay is no longer returned.
CollectionConverges ==
    /\ []FixedBackoffWhileCollecting
    /\ (Deleting /\ HasFinalizer /\ trackers # NoTrackers)
       ~> (trackers = NoTrackers)

\* Two trackers are left of a deleting object and a collection from here
\* reaps one of them and requeues with the fixed delay.
CollectionConvergesWitness ==
    /\ Deleting /\ HasFinalizer
    /\ trackers.history /\ trackers.cv /\ ~trackers.root /\ ~trackers.current
    /\ \E g \in Collections :
           /\ g.r.err = nil
           /\ g.p.trackers.cv /\ ~g.p.trackers.history
           /\ g.r.RequeueAfter = baseGCBackoffWaitTime

\* ---------------------------------------------------------------- C20
Followed == history # NoHistory /\ app.exists

Settled ==
    history[1].Phase \in {ApplicationRunning, ApplicationUnhealthy}

LifecyclePasses ==
    ReconcileOutcomes(Watch({"ExecuteSteps", "Status().Patch", "Status().Update"}))

PersistedPhase(o) == o.p.history[1].Phase

WritesSettled(o) ==
    \E i \in Writes(o) :
        /\ o.p.log[i].ok
        /\ o.p.log[i].arg \in {ApplicationRunning, ApplicationUnhealthy}

Terminated == app.Workflow # <<>> /\ app.Workflow[1].Terminated

\* What the passes from the current state persist, by the report of the
\* workflow driver.
PhaseFollowsWorkflow ==
    Followed =>
    LET passes == LifecyclePasses
    IN  /\ \A o \in passes :
              /\ WritesSettled(o) => Reported(o, {"Succeeded", "Finished"})
              /\ (o.p.clean /\ Reported(o, {"Executing"}))
                 => PersistedPhase(o) = ApplicationRunningWorkflow
              /\ (o.p.clean /\ Reported(o, {"Initializing"}))
                 => \/ PersistedPhase(o) = ApplicationRunningWorkflow
                    \/ /\ PersistedPhase(o) = ApplicationRendering
                       /\ o.RequeueAfter = baseGCBackoffWaitTime
              /\ (o.p.clean /\ Reported(o, {"Succeeded"}))
                 => IF cfg.EnableReconcileLoopReduction
                    THEN PersistedPhase(o) \in {ApplicationRunning, ApplicationUnhealthy}
                    ELSE PersistedPhase(o) = ApplicationWorkflowFinished
              /\ (o.p.clean /\ Reported(o, {"Finished"}) /\ ~Terminated)
                 => PersistedPhase(o) \in {ApplicationRunning, ApplicationUnhealthy}
        /\ (/\ FinalizerExists(app, resourceTrackerFinalizer)
            /\ ~app.DeletionTimestamp
            /\ ~Terminated)
           => \A phase \in {ApplicationRunning, ApplicationUnhealthy} :
                  \E o \in passes : o.p.clean /\ PersistedPhase(o) = phase

BranchPasses ==
    ReconcileOutcomes(Watch({"ExecuteSteps", "Trace", "SetConditions",
                             "GarbageCollect", "Status().Patch",
                             "Status().Update", "StateKeep",
                             "garbageCollection"}))

\* The log of a pass from the report of the workflow driver on.
Branch(o) ==
    LET i == CHOOSE j \in DOMAIN o.p.log : o.p.log[j].op = "ExecuteSteps"
    IN  SubSeq(o.p.log, i + 1, Len(o.p.log))

Ops(log) == [i \in DOMAIN log |-> log[i].op]

\* A pass can get as far as the workflow.
ReachesWorkflow ==
    /\ app.exists
    /\ ~app.DeletionTimestamp
    /\ FinalizerExists(app, resourceTrackerFinalizer)

LightCollection(ok) == Ev("GarbageCollect", "light", ok)

\* C22: a pass in which the workflow driver reports Executing runs one
\* lightweight collection, writes the status once with phase
\* runningWorkflow (with the Deleting condition when the collection is
\* unfinished, with the error condition when it failed), runs neither
\* state-keep nor the full collection, and returns the requeue delay the
\* driver supplied to that pass, which is neither the re-sync period nor
\* the fixed backoff of the collection, with an error exactly when the
\* collection or the status write failed; each backoff is returned after a
\* finished and after an unfinished collection.
ExecutingRequeuesWithBackoff ==
    LET passes == { o \in BranchPasses : Reported(o, {"Executing"}) }
        patch(ok) == Ev("Status().Patch", ApplicationRunningWorkflow, ok)
    IN  /\ \A o \in passes :
              /\ \E ok \in BOOLEAN :
                     Branch(o) \in
                       { << LightCollection(TRUE), patch(ok) >>,
                         << LightCollection(TRUE),
                            Ev("SetConditions", "Deleting", TRUE), patch(ok) >>,
                         << LightCollection(FALSE),
                            Ev("SetConditions", "ReconcileError", TRUE), patch(ok) >> }
              /\ o.p.backoff \in BackoffWaitTimes
              /\ o.RequeueAfter = o.p.backoff
              /\ o.RequeueAfter \notin {ApplicationReSyncPeriod, baseGCBackoffWaitTime}
              /\ o.err = nil <=> o.p.clean
        /\ ReachesWorkflow
           => \A d \in BackoffWaitTimes, unfinished \in BOOLEAN :
                  \E o \in passes :
                      /\ o.p.clean
                      /\ o.RequeueAfter = d
                      /\ unfinished <=> Has(o, "SetConditions")

\* The workflow has run and left trackers behind, and the object is still
\* there for the next pass.
ExecutingRequeuesWithBackoffWitness ==
    /\ ReachesWorkflow
    /\ app.Workflow # <<>>
    /\ trackers.current
    /\ \E o \in BranchPasses : Reported(o, {"Executing"}) /\ o.RequeueAfter = 10000

\* ---------------------------------------------------------------- C23
\* C23 as stated: a pass in which the driver reports Initializing and every
\* call succeeds, the collection being finished, writes the status with
\* phase rendering and requeues at the re-sync period.
InitializingPersistsRendering ==
    \A o \in BranchPasses :
        (Reported(o, {"Initializing"}) /\ o.p.clean /\ ~Has(o, "SetConditions"))
        => /\ \E i \in Writes(o) : o.p.log[i].arg = ApplicationRendering
           /\ o.RequeueAfter = ApplicationReSyncPeriod

\* C23 (amended): a pass in which the workflow driver reports Initializing
\* runs one lightweight collection and writes the status once: when the
\* collection is finished, with a status update that carries phase
\* runningWorkflow, requeueing at the re-sync period; when it is
\* unfinished, with a patch that carries phase rendering and the Deleting
\* condition, requeueing after the fixed backoff; when it failed, with a
\* patch that carries phase rendering and the error condition, returning
\* an error.  A failed status write returns an error.  The pass runs
\* neither state-keep nor the full collection.
InitializingCollectsAndPromotes ==
    LET passes == { o \in BranchPasses : Reported(o, {"Initializing"}) }
        patch(ok) == Ev("Status().Patch", ApplicationRendering, ok)
        update(ok) == Ev("Status().Update", ApplicationRunningWorkflow, ok)
    IN  /\ \A o \in passes :
              \E ok \in BOOLEAN :
                  /\ o.err = nil <=> o.p.clean
                  /\ \/ /\ Branch(o) = << LightCollection(TRUE), update(ok) >>
                        /\ o.RequeueAfter =
                               IF ok THEN ApplicationReSyncPeriod ELSE 0
                     \/ /\ Branch(o) =
                             << LightCollection(TRUE),
                                Ev("SetConditions", "Deleting", TRUE), patch(ok) >>
                        /\ o.RequeueAfter = baseGCBackoffWaitTime
                     \/ /\ Branch(o) =
                             << LightCollection(FALSE),
                                Ev("SetConditions", "ReconcileError", TRUE),
                                patch(ok) >>
                        /\ o.RequeueAfter = 0
        /\ ReachesWorkflow
           => \A unfinished \in BOOLEAN :
                  \E o \in passes :
                      /\ o.p.clean
                      /\ unfinished <=> Has(o, "SetConditions")

\* The generation was observed by an earlier pass and the next pass can
\* find the workflow initializing and promote the phase.
InitializingCollectsAndPromotesWitness ==
    /\ ReachesWorkflow
    /\ app.ObservedGeneration = app.Generation
    /\ \E o \in BranchPasses :
           /\ Reported(o, {"Initializing"})
           /\ o.p.clean
           /\ HasOk(o, "Status().Update")
           /\ o.RequeueAfter = ApplicationReSyncPeriod

\* ---------------------------------------------------------------- C24
\* What a lightweight collection with the given phase logs, the status
\* write included.
LightCollectionLogs(phase) ==
    { << LightCollection(TRUE), Ev("Status().Patch", phase, ok) >>
      : ok \in BOOLEAN }
    \cup
    { << LightCollection(TRUE), Ev("SetConditions", "Deleting", TRUE),
         Ev("Status().Patch", phase, ok) >> : ok \in BOOLEAN }
    \cup
    { << LightCollection(FALSE), Ev("SetConditions", "ReconcileError", TRUE),
         Ev("Status().Patch", phase, ok) >> : ok \in BOOLEAN }

\* C24: a pass in which the workflow driver reports Suspended runs one
\* lightweight collection and writes the status once, with phase
\* workflowSuspending; a pass in which it reports Terminated records the
\* trace, marks the workflow finished, and then does the same with phase
\* workflowTerminated; when the trace fails the pass sets the Workflow
\* error condition, writes phase runningWorkflow and returns an error
\* without collecting.  Neither pass runs state-keep or the full
\* collection or writes running or unhealthy, and each has a run in which
\* every call succeeds.
SuspendedAndTerminatedEndThePass ==
    LET suspended == { o \in BranchPasses : Reported(o, {"Suspended"}) }
        terminated == { o \in BranchPasses : Reported(o, {"Terminated"}) }
    IN  /\ \A o \in suspended :
              /\ Branch(o) \in LightCollectionLogs(ApplicationWorkflowSuspending)
              /\ o.err = nil <=> o.p.clean
        /\ \A o \in terminated :
              /\ o.err = nil <=> o.p.clean
              /\ IF Branch(o)[1].ok
                 THEN /\ Branch(o)[1] = Ev("Trace", "", TRUE)
                      /\ o.p.Finished
                      /\ Tail(Branch(o)) \in
                            LightCollectionLogs(ApplicationWorkflowTerminated)
                 ELSE /\ ~o.p.Finished
                      /\ o.err # nil
                      /\ \E ok \in BOOLEAN :
                            Branch(o) =
                              << Ev("Trace", "", FALSE),
                                 Ev("SetConditions", "Workflow", TRUE),
                                 Ev("Status().Patch", ApplicationRunningWorkflow, ok) >>
        /\ ReachesWorkflow
           => /\ \E o \in suspended : o.p.clean
              /\ \E o \in terminated : o.p.clean

\* A pass has found the workflow terminated and stored that, and the next
\* pass can find it suspended or terminated again.
SuspendedAndTerminatedWitness ==
    /\ ReachesWorkflow
    /\ Terminated
    /\ \E o \in BranchPasses :
           /\ Reported(o, {"Terminated"})
           /\ o.p.clean
           /\ HasOk(o, "Trace")
    /\ \E o \in BranchPasses : Reported(o, {"Suspended"}) /\ o.p.clean

\* ---------------------------------------------------------------- C25
FullCollection(ok) == Ev("GarbageCollect", "outdated", ok)

FinalPhases == {ApplicationRunning, ApplicationUnhealthy}

\* What the end of a pass logs from state-keep on: state-keep, the
\* collection of the handler, the Ready condition, the full collection and
\* one status write with a final phase.
FinishLogs ==
    UNION {
      LET patches == { << Ev("Status().Patch", phase, ok) >> : ok \in BOOLEAN }
          keeps == { << Ev("StateKeep", "", TRUE) >>,
                     << Ev("StateKeep", "", FALSE),
                        Ev("SetConditions", "StateKeep", TRUE) >> }
          collects ==
            { << Ev("garbageCollection", "", FALSE),
                 Ev("SetConditions", "ReconcileError", TRUE) >>,
              << Ev("garbageCollection", "", TRUE),
                 Ev("SetConditions", "Ready", TRUE), FullCollection(TRUE) >>,
              << Ev("garbageCollection", "", TRUE),
                 Ev("SetConditions", "Ready", TRUE), FullCollection(TRUE),
                 Ev("SetConditions", "Deleting", TRUE) >>,
              << Ev("garbageCollection", "", TRUE),
                 Ev("SetConditions", "Ready", TRUE), FullCollection(FALSE),
                 Ev("SetConditions", "ReconcileError", TRUE) >> }
      IN  { k \o c \o w : k \in keeps, c \in collects, w \in patches }
      : phase \in FinalPhases }

WorkflowReady == Ev("SetConditions", "WorkflowReady", TRUE)

\* C25: a pass in which the workflow driver reports Succeeded records the
\* trace, marks the workflow finished and sets the Workflow ready
\* condition.  Passes not being fused, it then runs one lightweight
\* collection and writes the status once with phase workflowFinished,
\* without state-keep and without a final phase; passes being fused, it
\* goes on in the same pass to state-keep, the full collection and one
\* status write with running or unhealthy.  When the trace fails the pass
\* sets the Workflow error condition, writes phase runningWorkflow and
\* returns an error.
SucceededFinishesOrFuses ==
    LET passes == { o \in BranchPasses : Reported(o, {"Succeeded"}) }
    IN  /\ \A o \in passes :
              IF Branch(o)[1].ok
              THEN /\ SubSeq(Branch(o), 1, 2) = << Ev("Trace", "", TRUE), WorkflowReady >>
                   /\ o.p.Finished
                   /\ LET rest == Tail(Tail(Branch(o)))
                      IN  IF cfg.EnableReconcileLoopReduction
                          THEN rest \in FinishLogs
                          ELSE /\ rest \in LightCollectionLogs(ApplicationWorkflowFinished)
                               /\ o.err = nil <=> o.p.clean
              ELSE /\ ~o.p.Finished
                   /\ o.err # nil
                   /\ \E ok \in BOOLEAN :
                         Branch(o) =
                           << Ev("Trace", "", FALSE),
                              Ev("SetConditions", "Workflow", TRUE),
                              Ev("Status().Patch", ApplicationRunningWorkflow, ok) >>
        /\ ReachesWorkflow
           => \E o \in passes :
                  /\ o.p.clean
                  /\ o.err = nil
                  /\ HasOk(o, "StateKeep") <=> cfg.EnableReconcileLoopReduction

\* Passes are fused, the workflow has run, and the next pass can find it
\* succeeded and go on to the full collection.
SucceededFusesWitness ==
    /\ ReachesWorkflow
    /\ cfg.EnableReconcileLoopReduction
    /\ app.Workflow # <<>>
    /\ \E o \in BranchPasses :
           /\ Reported(o, {"Succeeded"})
           /\ o.p.clean
           /\ HasOk(o, "StateKeep")
           /\ Cardinality(Writes(o)) = 1

\* ---------------------------------------------------------------- C26
\* C26: a pass in which the workflow driver reports Finished and the
\* workflow status is marked terminated ends there: no error, the requeue
\* of the re-sync period, no status write, no state-keep, no collection,
\* the stored object as it was.  When the status is not marked terminated
\* the pass goes on to state-keep, the full collection and one status write
\* with running or unhealthy.
FinishedEndsWhenTerminated ==
    LET passes == { o \in BranchPasses : Reported(o, {"Finished"}) }
    IN  /\ \A o \in passes :
              IF Terminated
              THEN /\ Branch(o) = << >>
                   /\ o.err = nil
                   /\ o.RequeueAfter = ApplicationReSyncPeriod
                   /\ o.p.obj = app
                   /\ o.p.history = history
              ELSE Branch(o) \in FinishLogs
        /\ ReachesWorkflow => \E o \in passes : o.p.clean /\ o.err = nil

\* An earlier pass has stored the terminated workflow and the next pass can
\* find the workflow finished.
FinishedEndsWhenTerminatedWitness ==
    /\ ReachesWorkflow
    /\ Terminated
    /\ \E o \in BranchPasses :
           Reported(o, {"Finished"}) /\ o.p.clean /\ Branch(o) = << >>

\* ---------------------------------------------------------------- C27
\* C27: a pass in which the workflow driver reports Skipping ends there:
\* no error, no requeue delay, no status write, no state-keep, no
\* collection, and the stored object and what was persisted as they were.
SkippingEndsThePass ==
    LET passes == { o \in BranchPasses : Reported(o, {"Skipping"}) }
    IN  /\ \A o \in passes :
              /\ Branch(o) = << >>
              /\ o.err = nil
              /\ o.RequeueAfter = 0
              /\ o.p.obj = app
              /\ o.p.history = history
        /\ ReachesWorkflow => \E o \in passes : o.p.clean

\* The generation was observed and the workflow has run before, and the
\* next pass can be told to skip.
SkippingEndsThePassWitness ==
    /\ ReachesWorkflow
    /\ app.ObservedGeneration = app.Generation
    /\ app.Workflow # << >>
    /\ \E o \in BranchPasses :
           Reported(o, {"Skipping"}) /\ o.p.clean /\ o.RequeueAfter = 0

\* ---------------------------------------------------------------- C28
\* Every pass from the current state, with what the two health tests
\* returned and the status patches.
HealthPasses ==
    ReconcileOutcomes(Watch({"hasHealthCheckPolicy", "isHealthy",
                             "Status().Patch"}))

Returned(o, op, value) ==
    \E i \in DOMAIN o.p.log : o.p.log[i].op = op /\ o.p.log[i].arg = value

\* A policy with health-check management governs the object.
Governed(policies) ==
    \E i \in DOMAIN policies :
        /\ policies[i].FullTemplate
        /\ policies[i].PolicyDefinition
        /\ policies[i].ManageHealthCheck

\* A component or one of its traits reports unhealthy.
SomeUnhealthy(services) ==
    \E i \in DOMAIN services :
        \/ ~services[i].Healthy
        \/ \E j \in DOMAIN services[i].Traits : ~services[i].Traits[j]

\* C28: the final phase is unhealthy exactly when no policy with
\* health-check management governs the object and a component or one of
\* its traits reports unhealthy, and running in every other case; a pass
\* that reaches the final phase writes the status with that phase and no
\* other, and asks for the health only when no such policy governs.
FinalPhaseByHealth ==
    /\ \A ps \in PolicyChoices, ss \in ServiceChoices :
           FinalPhase(ps, ss) =
               IF ~Governed(ps) /\ SomeUnhealthy(ss)
               THEN ApplicationUnhealthy
               ELSE ApplicationRunning
    /\ LET passes == { o \in HealthPasses : Has(o, "hasHealthCheckPolicy") }
       IN  /\ \A o \in passes :
                 /\ Has(o, "isHealthy") <=> Returned(o, "hasHealthCheckPolicy", "false")
                 /\ Cardinality(Writes(o)) = 1
                 /\ \A i \in Writes(o) :
                        o.p.log[i].arg =
                            IF Returned(o, "isHealthy", "false")
                            THEN ApplicationUnhealthy
                            ELSE ApplicationRunning
           /\ (ReachesWorkflow /\ ~Terminated)
              => \A policy \in {"true", "false"}, healthy \in {"true", "false"} :
                     \E o \in passes :
                         /\ o.p.clean
                         /\ Returned(o, "hasHealthCheckPolicy", policy)
                         /\ policy = "false" => Returned(o, "isHealthy", healthy)

\* The workflow has run, its resources are tracked, and the next pass can
\* find a trait unhealthy with no policy governing and write unhealthy.
FinalPhaseByHealthWitness ==
    /\ ReachesWorkflow
    /\ ~Terminated
    /\ trackers.root
    /\ app.Workflow # << >>
    /\ \E o \in HealthPasses :
           /\ o.p.clean
           /\ Returned(o, "isHealthy", "false")
           /\ \E i \in Writes(o) : o.p.log[i].arg = ApplicationUnhealthy

\* ---------------------------------------------------------------- C29
\* Every pass from the current state, with the health tests, the calls from
\* state-keep on and every failed call.
KeepPasses ==
    ReconcileOutcomes(WatchFailures({"hasHealthCheckPolicy", "isHealthy",
                                     "StateKeep", "SetConditions",
                                     "garbageCollection", "GarbageCollect",
                                     "Status().Patch"}))

StateKeepFailed(o) ==
    \E i \in DOMAIN o.p.log : o.p.log[i] = Ev("StateKeep", "", FALSE)

\* The log of a pass from the failed state-keep call on.
AfterStateKeep(o) ==
    LET i == CHOOSE j \in DOMAIN o.p.log : o.p.log[j].op = "StateKeep"
    IN  SubSeq(o.p.log, i + 1, Len(o.p.log))

\* C29: a pass whose state-keep call fails records the StateKeep error
\* condition and goes on: it runs the collection of the handler and, when
\* that succeeds, the full collection, and writes the status once with the
\* phase the health tests gave before state-keep; it returns an error
\* exactly when a call other than state-keep failed, and it has a run that
\* returns no error, with either final phase.
StateKeepFailureGoesOn ==
    LET passes == { o \in KeepPasses : StateKeepFailed(o) }
    IN  /\ \A o \in passes :
              /\ SubSeq(AfterStateKeep(o), 1, 2) =
                     << Ev("SetConditions", "StateKeep", TRUE),
                        Ev("garbageCollection", "", AfterStateKeep(o)[2].ok) >>
              /\ AfterStateKeep(o)[2].ok
                 => /\ AfterStateKeep(o)[3] = Ev("SetConditions", "Ready", TRUE)
                    /\ AfterStateKeep(o)[4].op = "GarbageCollect"
                    /\ AfterStateKeep(o)[4].arg = "outdated"
              /\ Cardinality(Writes(o)) = 1
              /\ \A i \in Writes(o) :
                     /\ i = Len(o.p.log)
                     /\ o.p.log[i].arg =
                            IF Returned(o, "isHealthy", "false")
                            THEN ApplicationUnhealthy
                            ELSE ApplicationRunning
              /\ o.err = nil <=> Failures(o) = {}
        /\ (ReachesWorkflow /\ ~Terminated)
           => \A phase \in FinalPhases :
                  \E o \in passes :
                      /\ o.err = nil
                      /\ \E i \in Writes(o) : o.p.log[i] = Ev("Status().Patch", phase, TRUE)

\* Component revisions are tracked and the next pass can fail at
\* state-keep, reap them in the full collection and return no error.
StateKeepFailureGoesOnWitness ==
    /\ ReachesWorkflow
    /\ ~Terminated
    /\ trackers.cv
    /\ \E o \in KeepPasses :
           /\ StateKeepFailed(o)
           /\ o.err = nil
           /\ ~o.p.trackers.cv

\* ---------------------------------------------------------------- C30
\* Every pass from the current state, with what the workflow driver
\* reported, whether each collection reported finished, the conditions set
\* and the status writes.
CollectingPasses ==
    ReconcileOutcomes(Watch({"ExecuteSteps", "GarbageCollect.finished",
                             "SetConditions", "Status().Patch",
                             "Status().Update"}))

Unfinished == Ev("GarbageCollect.finished", "false", TRUE)

\* The phases the branch a pass took hands to its collection.
CallingPhases(o) ==
    IF ~Has(o, "ExecuteSteps") THEN {ApplicationDeleting}
    ELSE IF Reported(o, {"Initializing"}) THEN {ApplicationRendering}
    ELSE IF Reported(o, {"Suspended"}) THEN {ApplicationWorkflowSuspending}
    ELSE IF Reported(o, {"Terminated"}) THEN {ApplicationWorkflowTerminated}
    ELSE IF Reported(o, {"Executing"}) THEN {ApplicationRunningWorkflow}
    ELSE IF Reported(o, {"Succeeded"}) /\ ~cfg.EnableReconcileLoopReduction
    THEN {ApplicationWorkflowFinished}
    ELSE FinalPhases

\* C30: a collection that reports finished=false without an error is no
\* failure of the pass: the pass sets the Deleting condition, patches the
\* status with the phase of the calling branch and ends, returning the
\* fixed backoff of the collection (the backoff of the workflow driver in
\* the Executing branch) and never the re-sync period, without error when
\* the patch succeeded; such a pass exists for every branch with a
\* lightweight collection wherever a pass reaches the workflow, and for a
\* deleting object with trackers.
UnfinishedCollectionRequeues ==
    LET passes == { o \in CollectingPasses :
                      \E i \in DOMAIN o.p.log : o.p.log[i] = Unfinished }
    IN  /\ \A o \in passes :
              LET i == CHOOSE j \in DOMAIN o.p.log : o.p.log[j] = Unfinished
              IN  /\ Len(o.p.log) = i + 2
                  /\ o.p.log[i + 1] = Ev("SetConditions", "Deleting", TRUE)
                  /\ o.p.log[i + 2].op = "Status().Patch"
                  /\ o.p.log[i + 2].arg \in CallingPhases(o)
                  /\ o.err = nil <=> o.p.log[i + 2].ok
                  /\ o.RequeueAfter =
                         IF Reported(o, {"Executing"}) THEN o.p.backoff
                         ELSE baseGCBackoffWaitTime
                  /\ o.RequeueAfter # ApplicationReSyncPeriod
        /\ ReachesWorkflow
           => \A s \in {"Initializing", "Suspended", "Terminated"}
                        \cup IF cfg.EnableReconcileLoopReduction
                             THEN {} ELSE {"Succeeded"} :
                  \E o \in passes :
                      /\ Reported(o, {s})
                      /\ o.err = nil
                      /\ o.RequeueAfter = baseGCBackoffWaitTime
        /\ (Deleting /\ HasFinalizer /\ trackers # NoTrackers)
           => \E o \in passes :
                  /\ o.err = nil
                  /\ o.RequeueAfter = baseGCBackoffWaitTime
                  /\ KeepsFinalizer(o)

\* The resources of the workflow are tracked and the next pass can find
\* the workflow suspended and its collection unfinished.
UnfinishedCollectionRequeuesWitness ==
    /\ ReachesWorkflow
    /\ trackers.current
    /\ \E o \in CollectingPasses :
           /\ Reported(o, {"Suspended"})
           /\ \E i \in DOMAIN o.p.log : o.p.log[i] = Unfinished
           /\ o.err = nil
           /\ o.RequeueAfter = baseGCBackoffWaitTime

\* ---------------------------------------------------------------- C21
NotFoundErrors ==
    {ErrStorageTraitNotExists, ErrStorageTraitTypeNotExists,
     ErrStorageMountPathNotExists, ErrStorageDataNotExists}

\* The component has no storage trait, or the property document of its
\* storage trait lacks the requested type, or no entry of that type with
\* the requested mount path holds the requested key.
Missing(comp, req) ==
    LET t == FirstStorageTrait(comp.Traits)
    IN  \/ t = 0
        \/ LET typeProperties == comp.Traits[t].Properties[req.Type]
           IN  \/ typeProperties.Kind = "absent"
               \/ \A i \in DOMAIN typeProperties.Items :
                      ~ /\ typeProperties.Items[i].hasMountPath
                        /\ typeProperties.Items[i].mountPath = req.MountPath
                        /\ typeProperties.Items[i].hasData
                        /\ req.DataKey \in DOMAIN typeProperties.Items[i].data

\* C21: an Update, Delete or Detail call whose ds.Get returned the
\* component, and whose storage trait, type, mount path or data key is
\* missing from it, returned one of the typed not-found errors and did not
\* call ds.Put.
MissingItemIsNotFound ==
    (/\ reply.op \in {"Update", "Delete", "Detail"}
     /\ reply.before.exists
     /\ ~(reply.err = ErrDatastore /\ ~reply.put)
     /\ Missing(reply.before, reply.req))
    => /\ reply.err \in NotFoundErrors
       /\ ~reply.put

\* ---------------------------------------------------------------- C31
ReadyPasses ==
    ReconcileOutcomes(Watch({"SetConditions", "GarbageCollect",
                             "GarbageCollect.finished", "Status().Patch",
                             "Status().Update"}))

\* The position of the full collection of lines 355: the call after the
\* Ready condition was set; 0 in a pass that does not get there.
FinalCollection(o) ==
    First({ i \in 2..Len(o.p.log) :
              /\ o.p.log[i - 1] = Ev("SetConditions", "Ready", TRUE)
              /\ o.p.log[i].op = "GarbageCollect" })

\* A status write of the pass succeeded with a true Ready condition of
\* reason reconcile-success on the status.
PersistsReady(o) ==
    \E i \in DOMAIN o.p.log :
        /\ o.p.log[i].op \in {"Status().Patch", "Status().Update"}
        /\ o.p.log[i].ok
        /\ LET c == ConditionsSet(SubSeq(o.p.log, 1, i))
           IN  /\ TypeReady \in DOMAIN c
               /\ c[TypeReady] = Condition("Ready")

\* C31: a pass whose full collection at the end failed, or reported
\* resources still being deleted, writes no status with a true Ready
\* condition.
ReadyOnlyAfterFinishedCollection ==
    \A o \in ReadyPasses :
        LET i == FinalCollection(o)
        IN  (/\ i # 0
             /\ \/ ~o.p.log[i].ok
                \/ o.p.log[i + 1] = Ev("GarbageCollect.finished", "false", TRUE))
            => ~PersistsReady(o)

\* The same for the collections that report resources still being deleted.
UnfinishedCollectionIsNotReady ==
    \A o \in ReadyPasses :
        LET i == FinalCollection(o)
        IN  (/\ i # 0
             /\ o.p.log[i].ok
             /\ o.p.log[i + 1] = Ev("GarbageCollect.finished", "false", TRUE))
            => ~PersistsReady(o)

\* ---------------------------------------------------------------- C32
ModePasses ==
    ReconcileOutcomes(Watch({"ListApplicationResourceTrackers", "ExecuteSteps",
                             "Trace", "SetConditions", "GarbageCollect"}))

\* The positions of the collections of a pass in the given mode.
CollectionsIn(o, mode) ==
    { i \in DOMAIN o.p.log :
        o.p.log[i].op = "GarbageCollect" /\ o.p.log[i].arg = mode }

\* The collection at i is the one at the end of the pass: the call after
\* the Ready condition was set.
AtTheEnd(o, i) == i > 1 /\ o.p.log[i - 1] = Ev("SetConditions", "Ready", TRUE)

\* The collection at i is the one of the finalizer protocol: the call after
\* the trackers of a deleting object were listed.
InFinalizers(o, i) ==
    /\ i > 1
    /\ o.p.log[i - 1].op = "ListApplicationResourceTrackers"
    /\ o.p.log[i - 1].ok
    /\ Deleting

\* The collection at i is the one of a workflow branch: the call after
\* ExecuteSteps, after the trace, or after the workflow's Ready condition.
InBranch(o, i) ==
    /\ i > 1
    /\ \/ o.p.log[i - 1].op = "ExecuteSteps" /\ o.p.log[i - 1].ok
       \/ o.p.log[i - 1] = Ev("Trace", "", TRUE)
       \/ o.p.log[i - 1] = WorkflowReady

ExitPasses ==
    ReconcileOutcomes(WatchFailures({"SetConditions", "Status().Patch",
                                     "Status().Update"}))

\* The positions at which a pass calls endWithNegativeCondition.
NegativeExits(o) ==
    { i \in DOMAIN o.p.log :
        /\ o.p.log[i].op = "SetConditions"
        /\ o.p.log[i].arg \in NegativeConditions }

\* The phases endWithNegativeCondition is given after a failure of op.
GivenPhases(op) ==
    CASE op \in {"NewAppHandler", "Update"} -> {ApplicationStarting}
      [] op \in {"GenerateAppFile", "PrepareCurrentAppRevision",
                 "FinalizeAndApplyAppRevision", "UpdateAppLatestRevisionStatus",
                 "GenerateApplicationSteps"} -> {ApplicationRendering}
      [] op \in {"PrepareWorkflowAndPolicy", "Dispatch"} ->
           {ApplicationPolicyGenerating}
      [] op \in {"ExecuteSteps", "Trace"} -> {ApplicationRunningWorkflow}
      [] op = "garbageCollection" -> {ApplicationRunning, ApplicationUnhealthy}
      [] op = "GarbageCollect" ->
           {ApplicationDeleting, ApplicationRendering,
            ApplicationWorkflowSuspending, ApplicationWorkflowTerminated,
            ApplicationRunningWorkflow, ApplicationWorkflowFinished,
            ApplicationRunning, ApplicationUnhealthy}
      [] OTHER -> {}

\* C33: a pass writes the status at most once; a negative-condition exit
\* follows a failed call, sets its condition on the in-memory status,
\* patches the status once with the phase it was given, ends the pass
\* there and returns the wrapped error of the patch if that failed and the
\* object-level reconcile error otherwise.
NegativeExitWritesOnce ==
    /\ \A o \in ExitPasses :
          /\ Cardinality(StatusWrites(o)) <= 1
          /\ \A i \in NegativeExits(o) :
                LET c == Condition(o.p.log[i].arg)
                    set == ConditionsSet(SubSeq(o.p.log, 1, i + 1))
                IN  /\ i > 1
                    /\ ~o.p.log[i - 1].ok
                    /\ Len(o.p.log) = i + 1
                    /\ o.p.log[i + 1].op = "Status().Patch"
                    /\ o.p.log[i + 1].arg \in GivenPhases(o.p.log[i - 1].op)
                    /\ c.Type \in DOMAIN set
                    /\ set[c.Type] = c
                    /\ o.err = IF o.p.log[i + 1].ok
                               THEN "object level reconcile error"
                               ELSE "cannot update application status"
    /\ app.exists =>
          \A ok \in BOOLEAN :
              \E o \in ExitPasses :
                  \E i \in NegativeExits(o) : o.p.log[i + 1].ok = ok

\* A pass on a deleting object whose collection failed and whose status
\* patch failed as well.
NegativeExitWritesOnceWitness ==
    /\ Deleting
    /\ \E o \in ExitPasses :
          \E i \in NegativeExits(o) :
              /\ o.p.log[i - 1].op = "GarbageCollect"
              /\ ~o.p.log[i + 1].ok
              /\ o.err = "cannot update application status"

\* ---------------------------------------------------------------- C34
WritePasses ==
    ReconcileOutcomes(Watch({"Status().Patch", "Status().Update"}))

FailedWrites(o, op) ==
    { i \in DOMAIN o.p.log : o.p.log[i].op = op /\ ~o.p.log[i].ok }

Invalidated(o) ==
    <<CacheKey(AppName, AppNamespace), -1>> \in o.p.StepStatusCache

\* C34: a pass in which a status write failed, a patch or an update, ends
\* with the step-status cache entry of the object set to -1 and returns
\* an error.
FailedWriteInvalidatesCache ==
    \A o \in WritePasses :
        (FailedWrites(o, "Status().Patch") \cup FailedWrites(o, "Status().Update")
           # {})
        => Invalidated(o) /\ o.err # nil

\* The part that holds: a failed patch, and a failed update under
\* disableStatusUpdate, invalidate the entry; every failed write is
\* returned as an error.
FailedPatchInvalidatesCache ==
    \A o \in WritePasses :
        /\ FailedWrites(o, "Status().Patch") # {} => Invalidated(o)
        /\ (FailedWrites(o, "Status().Update") # {} /\ cfg.disableStatusUpdate)
             => Invalidated(o)
        /\ (FailedWrites(o, "Status().Patch") \cup FailedWrites(o, "Status().Update")
              # {}) => o.err # nil

\* ---------------------------------------------------------------- C35
LocalPasses ==
    ReconcileOutcomes(Watch({"GenerateAppFile", "PrepareCurrentAppRevision",
                             "FinalizeAndApplyAppRevision",
                             "PrepareWorkflowAndPolicy", "Dispatch",
                             "GenerateApplicationSteps", "ExecuteSteps",
                             "StateKeep", "garbageCollection", "GarbageCollect",
                             "SetConditions", "Status().Patch",
                             "Status().Update"}))

\* The phase-local failures: the call, the condition and the phase.
LocalFailures ==
    { <<"GenerateAppFile", "Parsed", ApplicationRendering>>,
      <<"PrepareCurrentAppRevision", "Revision", ApplicationRendering>>,
      <<"FinalizeAndApplyAppRevision", "Revision", ApplicationRendering>>,
      <<"PrepareWorkflowAndPolicy", "Policy", ApplicationPolicyGenerating>>,
      <<"Dispatch", "Policy", ApplicationPolicyGenerating>>,
      <<"GenerateApplicationSteps", "Workflow", ApplicationRendering>> }

\* The pass failed at the call of the local failure x.
FailedAt(o, x) ==
    \E i \in DOMAIN o.p.log : o.p.log[i].op = x[1] /\ ~o.p.log[i].ok

\* The number of external policies the pass found, as logged.
Policies(o) ==
    { o.p.log[i].arg : i \in { j \in DOMAIN o.p.log :
          o.p.log[j].op = "PrepareWorkflowAndPolicy" /\ o.p.log[j].ok } }

\* The pass gets past the finalizers.
ReachesParser ==
    /\ app.exists
    /\ ~app.DeletionTimestamp
    /\ FinalizerExists(app, resourceTrackerFinalizer)
       \/ cfg.EnableReconcileLoopReduction

\* C35: a pass that fails at the parser, the revision, the policies or the
\* step generation sets the condition of that stage, patches the status
\* once with the phase of that stage, returns an error, and calls neither
\* the workflow driver nor state-keep nor a collection; the dispatch of
\* policies is called exactly in the passes that found an external policy.
LocalFailureEndsThePass ==
    /\ \A o \in LocalPasses :
          /\ \A x \in LocalFailures :
                FailedAt(o, x) =>
                  LET n == Len(o.p.log)
                  IN  /\ n >= 3
                      /\ o.p.log[n - 2] = Ev(x[1], "", FALSE)
                      /\ o.p.log[n - 1] = Ev("SetConditions", x[2], TRUE)
                      /\ o.p.log[n].op = "Status().Patch"
                      /\ o.p.log[n].arg = x[3]
                      /\ StatusWrites(o) = {n}
                      /\ o.err # nil
                      /\ ~Has(o, "ExecuteSteps")
                      /\ ~Has(o, "StateKeep")
                      /\ ~Has(o, "garbageCollection")
                      /\ ~Has(o, "GarbageCollect")
          /\ Has(o, "Dispatch") <=> Policies(o) = {"1"}
    /\ ReachesParser =>
          \A x \in LocalFailures : \E o \in LocalPasses : FailedAt(o, x)

\* A pass that found an external policy and failed to dispatch it, with
\* the status patch failing as well, and one that found none and went on.
LocalFailureEndsThePassWitness ==
    /\ ReachesParser
    /\ \E o \in LocalPasses :
          /\ FailedAt(o, <<"Dispatch", "Policy", ApplicationPolicyGenerating>>)
          /\ ~o.p.log[Len(o.p.log)].ok
    /\ \E o \in LocalPasses :
          Policies(o) = {"0"} /\ Has(o, "ExecuteSteps")

\* ---------------------------------------------------------------- C36
RemovalPasses ==
    ReconcileOutcomes(Watch({"ListApplicationResourceTrackers", "GarbageCollect",
                             "GarbageCollect.finished", "Status().Patch",
                             "RemoveFinalizer", "Update"}))

CollectionReported(o, finished) ==
    \E i \in DOMAIN o.p.log :
        o.p.log[i] = Ev("GarbageCollect.finished", FormatBool(finished), TRUE)

PassTouchesOnlyItsOwn ==
    [][\A a \in Identities :
          (InvalidateFor(a) \/ DeleteContextFor(a)) =>
              \A b \in Identities \ {a} :
                  /\ Entry(StepStatusCache', b) = Entry(StepStatusCache, b)
                  /\ Context(MemStore', b) = Context(MemStore, b)]_vars

\* The part that holds: objects whose cache keys differ, and whose names
\* differ, are isolated from each other.
DistinctKeysAreIsolated ==
    [][\A a \in Identities :
          (InvalidateFor(a) \/ DeleteContextFor(a)) =>
              \A b \in Identities \ {a} :
                  /\ CacheKey(a.Name, a.Namespace) # CacheKey(b.Name, b.Namespace)
                       => Entry(StepStatusCache', b) = Entry(StepStatusCache, b)
                  /\ a.Name # b.Name
                       => Context(MemStore', b) = Context(MemStore, b)]_vars

\* ---------------------------------------------------------------- C38
\* ds.Get returned the component to the call.
Fetched == reply.before.exists /\ ~(reply.err = ErrDatastore /\ ~reply.put)

\* The entries of the list of the requested type with the requested mount
\* path, in the property document of the storage trait.
EntriesAt(comp, req) ==
    LET t == FirstStorageTrait(comp.Traits)
    IN  IF t = 0 THEN {}
        ELSE LET typeProperties == comp.Traits[t].Properties[req.Type]
             IN  IF typeProperties.Kind # "list" THEN {}
                 ELSE { i \in DOMAIN typeProperties.Items :
                          /\ typeProperties.Items[i].hasMountPath
                          /\ typeProperties.Items[i].mountPath = req.MountPath }

EntryAt(comp, req, i) ==
    comp.Traits[FirstStorageTrait(comp.Traits)].Properties[req.Type].Items[i]

\* The data key exists under the requested type and mount path.
KeyExists(comp, req) ==
    \E i \in EntriesAt(comp, req) :
        /\ EntryAt(comp, req, i).hasData
        /\ req.DataKey \in DOMAIN EntryAt(comp, req, i).data

\* C38: a create call for a data key that exists under the requested type
\* and mount path returned the key-exists error, did not call ds.Put and
\* left the stored component as it was.
CreateOfExistingKeyIsRejected ==
    (reply.op = "Create" /\ Fetched /\ KeyExists(reply.before, reply.req))
    => /\ reply.err = ErrStorageTraitKeyIsExists
       /\ ~reply.put
       /\ ds = reply.before

\* The part that holds: the key is in the first entry with the mount path,
\* and the storage trait is the last trait of the component.
CreateOfKeyInFirstEntryIsRejected ==
    (/\ reply.op = "Create"
     /\ Fetched
     /\ KeyExists(reply.before, reply.req)
     /\ LET i == First(EntriesAt(reply.before, reply.req))
        IN  /\ EntryAt(reply.before, reply.req, i).hasData
            /\ reply.req.DataKey \in DOMAIN EntryAt(reply.before, reply.req, i).data
     /\ reply.before.Traits[Len(reply.before.Traits)].Type = KeyStorage)
    => /\ reply.err = ErrStorageTraitKeyIsExists
       /\ ~reply.put
       /\ ds = reply.before

\* ---------------------------------------------------------------- C39
\* What a detail call for the request returns from the component, ds.Get
\* succeeding: the pairs of value and error.
Details(comp, req) ==
    { <<d.value, d.err>>
      : d \in { x \in DetailComponentStorageItem(
                         comp, [Type |-> req.Type, MountPath |-> req.MountPath,
                                DataKey |-> req.DataKey]) :
                   x.err # ErrDatastore } }

\* C39: after a delete call that returned success, a detail call for the
\* same mount path and data key returns a not-found error, and a detail
\* call for any other key of that mount path returns what it returned
\* before.
DeleteRoundTrip ==
    (reply.op = "Delete" /\ Fetched /\ reply.err = nil)
    => /\ \A d \in Details(ds, reply.req) : d[2] \in NotFoundErrors
       /\ \A k \in DataKeys \ {reply.req.DataKey} :
             Details(ds, [reply.req EXCEPT !.DataKey = k])
               = Details(reply.before, [reply.req EXCEPT !.DataKey = k])

\* ---------------------------------------------------------------- C40
\* The four starting shapes of a create call.
WithoutStorageTrait(comp) == FirstStorageTrait(comp.Traits) = 0

WithoutType(comp, req) ==
    /\ ~WithoutStorageTrait(comp)
    /\ comp.Traits[FirstStorageTrait(comp.Traits)].Properties[req.Type].Kind
         = "absent"

WithList(comp, req) ==
    /\ ~WithoutStorageTrait(comp)
    /\ comp.Traits[FirstStorageTrait(comp.Traits)].Properties[req.Type].Kind
         = "list"

ExistingMountPath(comp, req) ==
    /\ WithList(comp, req)
    /\ EntriesAt(comp, req) # {}
    /\ EntryAt(comp, req, First(EntriesAt(comp, req))).hasData
    /\ ~KeyExists(comp, req)

NewMountPath(comp, req) == WithList(comp, req) /\ EntriesAt(comp, req) = {}

\* The create call returned the trait without error and a detail call for
\* its mount path and key now returns its value.
Created ==
    /\ reply.err = nil
    /\ reply.res
    /\ Details(ds, reply.req) = { <<reply.req.DataValue, nil>> }

\* C40: a create call for a configMap item in one of the four starting
\* shapes, the datastore not failing, returns the storage trait without
\* error and a following detail call returns the value.
CreateRoundTrip ==
    (/\ reply.op = "Create"
     /\ reply.before.exists
     /\ reply.err # ErrDatastore
     /\ reply.req.Type = KeyConfigMap
     /\ \/ WithoutStorageTrait(reply.before)
        \/ WithoutType(reply.before, reply.req)
        \/ ExistingMountPath(reply.before, reply.req)
        \/ NewMountPath(reply.before, reply.req))
    => Created

\* The part that holds: the two shapes with a configMap list, the storage
\* trait being the last trait of the component.
CreateRoundTripOnLists ==
    (/\ reply.op = "Create"
     /\ reply.before.exists
     /\ reply.err # ErrDatastore
     /\ reply.req.Type = KeyConfigMap
     /\ \/ ExistingMountPath(reply.before, reply.req)
        \/ NewMountPath(reply.before, reply.req)
     /\ reply.before.Traits[Len(reply.before.Traits)].Type = KeyStorage)
    => Created

====
